---------------------------- MODULE Spec2Model ----------------------------
(***************************************************************************)
(* Pantry Oracle: the pantry matching and ranking engine                   *)
(* (backend/services/recipe_engine.py) and the TF-IDF recommendation       *)
(* engines (backend/ml/recommendation_engine.py and, with a FAISS index,   *)
(* backend/ml/advanced_ml_engine.py).                                      *)
(*                                                                         *)
(* Python strings are sequences of one-character strings, so that          *)
(* substring tests, regular expression matches and slices are computed     *)
(* character by character.  An optional value (None or a value) is the     *)
(* empty sequence or a one-element sequence.                               *)
(***************************************************************************)
EXTENDS Integers, Sequences, FiniteSets, TLC

VARIABLES
    \* one call chain of RecipeEngine._normalize_ingredient
    ingredient,         \* the argument of the last call
    normalized,         \* what the last call returned
    chained,            \* TRUE when the argument was itself a returned value
    \* one scoring session of RecipeEngine._calculate_coverage
    pantry,             \* the pantry argument of the last call
    recipe_ingredients, \* the recipe_ingredients argument of the last call
    coverage,           \* the returned coverage, a quotient <<num, den>>
    missing,            \* the returned missing list
    \* a RecipeEngine and the search request it is serving
    recipes_df,         \* the rows of the loaded corpus (empty: empty DataFrame)
    ingredient_index,   \* normalized ingredient -> set of row positions
    request,            \* the search request being served, or None
    response,           \* the response to it, or None
    \* a MLRecommendationEngine and its model file
    vectorizer,         \* None or the TfidfVectorizer: fitted or not, vocabulary
    recipe_vectors,     \* None or the matrix, one row per trained recipe
    recipe_ids,         \* the ids of the trained recipes, in row order
    is_trained,
    model_file,         \* recommendation_model.pkl: absent, corrupt or a saved model
    \* the class of the engine, what AdvancedMLEngine adds, and the query served
    engine_class,       \* "MLRecommendationEngine" or "AdvancedMLEngine"
    faiss_available,    \* FAISS_AVAILABLE: whether import faiss succeeded
    use_faiss,          \* AdvancedMLEngine.use_faiss
    faiss_index,        \* AdvancedMLEngine.faiss_index: None or the index
    faiss_file,         \* faiss_index.bin: None or the index written
    ml_request,         \* the query being served, or None
    ml_response,        \* the answer to it, or None
    trainers            \* the train calls running on the engine, by thread

normVars == <<ingredient, normalized, chained>>
covVars == <<pantry, recipe_ingredients, coverage, missing>>
engineVars == <<recipes_df, ingredient_index, request, response>>
mlVars == <<vectorizer, recipe_vectors, recipe_ids, is_trained, model_file>>
advVars ==
    <<engine_class, faiss_available, use_faiss, faiss_index, faiss_file,
      ml_request, ml_response>>
threadVars == <<trainers>>
vars == <<normVars, covVars, engineVars, mlVars, advVars, threadVars>>

None == <<>>
Some(x) == <<x>>

-----------------------------------------------------------------------------
(* Bounds of the inputs.                                                   *)

MaxLen == 5         \* longest generated raw ingredient string
MaxRecipeLen == 3   \* longest recipe ingredient list that is scored
MaxPantryLen == 2   \* longest pantry that is scored
MaxCorpus == 3      \* most rows of a loaded corpus
MaxTime == 2        \* largest max_time of a search request
MaxPage == 4        \* largest page of a search request
MaxLimit == 3       \* largest limit of a search request
MaxTrain == 2                 \* most recipes of one train call
MaxRecommendations == 2       \* largest n_recommendations and n_similar

-----------------------------------------------------------------------------
(* Characters and the str methods the normalizer uses.                     *)

Digits == {"0", "1", "2", "3", "4", "5", "6", "7", "8", "9"}
Whitespace == {" ", "\t", "\n"}

\* str.lower on one character (the upper-case letters the inputs use)
LowerChar(c) ==
    CASE c = "A" -> "a"
      [] c = "E" -> "e"
      [] c = "G" -> "g"
      [] c = "K" -> "k"
      [] c = "S" -> "s"
      [] OTHER -> c

Lower(s) == [i \in 1..Len(s) |-> LowerChar(s[i])]

RECURSIVE SkipWhile(_, _, _)
\* the first position j >= i of s that holds no character of class (Len(s)+1 if none)
SkipWhile(s, i, class) ==
    IF i <= Len(s) /\ s[i] \in class THEN SkipWhile(s, i + 1, class) ELSE i

RECURSIVE LastNonSpace(_, _)
\* the last position j <= i of s that holds no whitespace (0 if none)
LastNonSpace(s, i) ==
    IF i >= 1 /\ s[i] \in Whitespace THEN LastNonSpace(s, i - 1) ELSE i

\* str.strip()
Strip(s) ==
    SubSeq(s, SkipWhile(s, 1, Whitespace), LastNonSpace(s, Len(s)))

-----------------------------------------------------------------------------
(* re.sub(r'\d+\.?\d*\s*(cup|tbsp|tsp|oz|lb|g|kg|ml|l)s?', '', s)            *)

\* the alternation, in the order the pattern tries it
Units ==
    << <<"c", "u", "p">>, <<"t", "b", "s", "p">>, <<"t", "s", "p">>,
       <<"o", "z">>, <<"l", "b">>, <<"g">>, <<"k", "g">>, <<"m", "l">>, <<"l">> >>

HasPrefixAt(s, i, u) ==
    /\ i + Len(u) - 1 <= Len(s)
    /\ \A k \in 1..Len(u) : s[i + k - 1] = u[k]

RECURSIVE UnitEnd(_, _, _)
\* the position after the first alternative from the n-th on that matches at i; 0 if none
UnitEnd(s, i, n) ==
    IF n > Len(Units) THEN 0
    ELSE IF HasPrefixAt(s, i, Units[n]) THEN i + Len(Units[n])
    ELSE UnitEnd(s, i, n + 1)

\* The position after the match of the pattern that starts at i, 0 when none
\* starts there.  Every quantifier is greedy; giving characters back never
\* produces a match the greedy attempt misses (after fewer digits, dots or
\* blanks the next character is a digit, a dot or a blank, never a unit), so
\* the greedy extents are the match.
MatchEnd(s, i) ==
    IF ~(i <= Len(s) /\ s[i] \in Digits) THEN 0
    ELSE LET d1 == SkipWhile(s, i, Digits)                         \* \d+
             dot == IF d1 <= Len(s) /\ s[d1] = "." THEN d1 + 1 ELSE d1  \* \.?
             d2 == SkipWhile(s, dot, Digits)                       \* \d*
             sp == SkipWhile(s, d2, Whitespace)                    \* \s*
             u == UnitEnd(s, sp, 1)                                \* (cup|...|l)
         IN  IF u = 0 THEN 0
             ELSE IF u <= Len(s) /\ s[u] = "s" THEN u + 1 ELSE u   \* s?

RECURSIVE SubQuantity(_, _)
\* re.sub of the pattern by '' on s from position i: the matches are found
\* left to right and do not overlap
SubQuantity(s, i) ==
    IF i > Len(s) THEN <<>>
    ELSE LET e == MatchEnd(s, i)
         IN  IF e # 0 THEN SubQuantity(s, e)
             ELSE <<s[i]>> \o SubQuantity(s, i + 1)

RECURSIVE CollapseSpaces(_, _)
\* re.sub(r'\s+', ' ', s) from position i
CollapseSpaces(s, i) ==
    IF i > Len(s) THEN <<>>
    ELSE IF s[i] \in Whitespace
         THEN <<" ">> \o CollapseSpaces(s, SkipWhile(s, i, Whitespace))
         ELSE <<s[i]>> \o CollapseSpaces(s, i + 1)

\* RecipeEngine._normalize_ingredient
normalize_ingredient(s) ==
    IF s = <<>> THEN <<>>
    ELSE Strip(CollapseSpaces(SubQuantity(Strip(Lower(s)), 1), 1))


-----------------------------------------------------------------------------
(* Ingredient strings used as inputs.                                      *)

str_egg == <<"e", "g", "g">>
str_Egg == <<"E", "g", "g">>
str_eggs2 == <<"2", " ", "e", "g", "g", "s">>
str_eggplant == <<"e", "g", "g", "p", "l", "a", "n", "t">>
str_salt == <<"s", "a", "l", "t">>
str_rice == <<"r", "i", "c", "e">>
str_cup_rice == <<"1", " ", "c", "u", "p", " ", "r", "i", "c", "e">>
str_cups == <<"2", " ", "c", "u", "p", "s">>
str_kgs_salt == <<"1", ".", "5", " ", "k", "g", "s", " ", "S", "a", "l", "t">>
str_two_numbers == <<"2", " ", "1", " ", "c", "u", "p", " ", "g">>

SampleIngredients ==
    {str_egg, str_Egg, str_eggs2, str_eggplant, str_salt, str_rice,
     str_cup_rice, str_cups, str_kgs_salt, str_two_numbers}

\* the characters of the generated raw ingredient strings
InputChars == {"1", ".", " ", "g", "s", "A"}

GeneratedIngredients == UNION {[1..n -> InputChars] : n \in 0..MaxLen}

RawIngredients == GeneratedIngredients \cup SampleIngredients

-----------------------------------------------------------------------------
(* The values the variables of a component hold in the specifications of   *)
(* the other components, where that component takes no step.               *)

NormIdle == ingredient = <<>> /\ normalized = None /\ chained = FALSE

CovIdle ==
    pantry = <<>> /\ recipe_ingredients = <<>> /\ coverage = None /\ missing = None

EngineIdle ==
    recipes_df = <<>> /\ ingredient_index = {} /\ request = None /\ response = None

MLIdle ==
    /\ vectorizer = None /\ recipe_vectors = None /\ recipe_ids = <<>>
    /\ is_trained = FALSE /\ model_file = None

AdvIdle ==
    /\ engine_class = "MLRecommendationEngine"
    /\ faiss_available = FALSE /\ use_faiss = FALSE
    /\ faiss_index = None /\ faiss_file = None
    /\ ml_request = None /\ ml_response = None

\* no train call is running in another thread
ThreadsIdle == trainers = <<>>

-----------------------------------------------------------------------------
(* The normalizer: a raw ingredient is normalized, and the value returned  *)
(* is normalized once more.                                                *)

NormInit == ingredient \in RawIngredients /\ normalized = None /\ chained = FALSE

\* _normalize_ingredient(ingredient)
Normalize ==
    /\ normalized = None
    /\ normalized' = Some(normalize_ingredient(ingredient))
    /\ UNCHANGED <<ingredient, chained>>

\* _normalize_ingredient(the value the last call returned)
NormalizeAgain ==
    /\ normalized # None /\ ~chained
    /\ ingredient' = normalized[1]
    /\ normalized' = Some(normalize_ingredient(normalized[1]))
    /\ chained' = TRUE

InitNormalize == NormInit /\ CovIdle /\ EngineIdle /\ MLIdle /\ AdvIdle /\ ThreadsIdle

NextNormalize ==
    \/ Normalize /\ UNCHANGED <<threadVars, covVars, engineVars, mlVars, advVars>>
    \/ NormalizeAgain /\ UNCHANGED <<threadVars, covVars, engineVars, mlVars, advVars>>

SpecNormalize == InitNormalize /\ [][NextNormalize]_vars

\* C1: normalization is idempotent: normalizing a value that normalization
\* returned returns that value unchanged.
C1_NormalizeIdempotent == chained => normalized[1] = ingredient

-----------------------------------------------------------------------------
(* RecipeEngine._calculate_coverage and _ingredients_match.                *)

\* "a in b" where the empty string is in no string
IsNonEmptySubstring(a, b) ==
    /\ a # <<>>
    /\ \E i \in 0..(Len(b) - Len(a)) : \A k \in 1..Len(a) : b[i + k] = a[k]

\* Python's "a in b" on strings
IsSubstring(a, b) ==
    \E i \in 0..(Len(b) - Len(a)) : \A k \in 1..Len(a) : b[i + k] = a[k]

ingredients_match_one_way(ing1, ing2) == IsSubstring(ing1, ing2)

\* RecipeEngine._ingredients_match
ingredients_match(ing1, ing2) == IsSubstring(ing1, ing2) \/ IsSubstring(ing2, ing1)

LastPantryDecides(recipe_ing, p, j) ==
    Len(p) >= 1 /\ ingredients_match(recipe_ing, p[Len(p)])

RECURSIVE FoundInPantry(_, _, _)
\* the inner loop of _calculate_coverage from the j-th pantry ingredient on:
\* the first match sets found and breaks
FoundInPantry(recipe_ing, p, j) ==
    IF j > Len(p) THEN FALSE
    ELSE IF ingredients_match(recipe_ing, p[j]) THEN TRUE
    ELSE FoundInPantry(recipe_ing, p, j + 1)

RECURSIVE CoverageLoop(_, _, _, _, _)
\* the outer loop of _calculate_coverage from the i-th recipe ingredient on
CoverageLoop(p, r, i, matched, miss) ==
    IF i > Len(r) THEN [matched |-> matched, missing |-> miss]
    ELSE IF FoundInPantry(r[i], p, 1)
         THEN CoverageLoop(p, r, i + 1, matched + 1, miss)
         ELSE CoverageLoop(p, r, i + 1, matched, Append(miss, r[i]))

\* A coverage is the quotient num / den of two small integers, kept as
\* <<num, den>>: the float division is correctly rounded, so two coverages
\* are equal (smaller) as floats exactly when the quotients are.
CovEq(a, b) == a[1] * b[2] = b[1] * a[2]
CovLess(a, b) == a[1] * b[2] < b[1] * a[2]
CovLeq(a, b) == a[1] * b[2] <= b[1] * a[2]

calculate_coverage_no_empty_case(p, r) ==
    LET res == CoverageLoop(p, r, 1, 0, <<>>)
    IN  [coverage |-> IF r # <<>> THEN <<res.matched, Len(r)>> ELSE <<0, 1>>,
         missing |-> res.missing]

\* RecipeEngine._calculate_coverage
calculate_coverage(p, r) ==
    IF r = <<>> THEN [coverage |-> <<1, 1>>, missing |-> <<>>]
    ELSE LET res == CoverageLoop(p, r, 1, 0, <<>>)
         IN  [coverage |-> IF r # <<>> THEN <<res.matched, Len(r)>> ELSE <<0, 1>>,
              missing |-> res.missing]

-----------------------------------------------------------------------------
(* The coverage scorer: a recipe is scored against a pantry that grows by  *)
(* one ingredient at a time.                                               *)

\* the normalized ingredient strings of the scored recipes and pantries
ScoredIngredients == {<<>>, str_egg, str_eggplant, str_salt, str_rice}

SeqsUpTo(S, n) == UNION {[1..k -> S] : k \in 0..n}

CovInit ==
    /\ recipe_ingredients \in SeqsUpTo(ScoredIngredients, MaxRecipeLen)
    /\ pantry = <<>>
    /\ coverage = None
    /\ missing = None

\* _calculate_coverage(pantry, recipe_ingredients)
Score ==
    /\ coverage = None
    /\ LET res == calculate_coverage(pantry, recipe_ingredients)
       IN  coverage' = Some(res.coverage) /\ missing' = Some(res.missing)
    /\ UNCHANGED <<pantry, recipe_ingredients>>

\* _calculate_coverage(pantry + [ing], recipe_ingredients)
AddToPantryAndScore(ing) ==
    /\ coverage # None
    /\ Len(pantry) < MaxPantryLen
    /\ pantry' = Append(pantry, ing)
    /\ LET res == calculate_coverage(pantry', recipe_ingredients)
       IN  coverage' = Some(res.coverage) /\ missing' = Some(res.missing)
    /\ UNCHANGED recipe_ingredients

InitCoverage == NormIdle /\ CovInit /\ EngineIdle /\ MLIdle /\ AdvIdle /\ ThreadsIdle

NextCoverage ==
    \/ Score /\ UNCHANGED <<threadVars, normVars, engineVars, mlVars, advVars>>
    \/ \E ing \in ScoredIngredients :
           AddToPantryAndScore(ing) /\ UNCHANGED <<threadVars, normVars, engineVars, mlVars, advVars>>

SpecCoverage == InitCoverage /\ [][NextCoverage]_vars

\* a recipe ingredient that neither contains a pantry ingredient nor is contained in one
Unmatched(recipe_ing, p) ==
    ~ \E j \in 1..Len(p) :
          IsSubstring(recipe_ing, p[j]) \/ IsSubstring(p[j], recipe_ing)

\* C2: for a non-empty recipe, missing is the unmatched recipe ingredients in
\* recipe order, every recipe ingredient counts once, coverage is
\* matched_count / len(recipe_ingredients) and lies in [0, 1], and
\* matched_count + len(missing) = len(recipe_ingredients).
C2_CoverageOfNonEmptyRecipe ==
    (coverage # None /\ recipe_ingredients # <<>>) =>
        LET IsUnmatched(x) == Unmatched(x, pantry)
            matched_count ==
                Cardinality({i \in 1..Len(recipe_ingredients) :
                                 ~IsUnmatched(recipe_ingredients[i])})
        IN  /\ missing[1] = SelectSeq(recipe_ingredients, IsUnmatched)
            /\ coverage[1][2] > 0
            /\ CovEq(coverage[1], <<matched_count, Len(recipe_ingredients)>>)
            /\ CovLeq(<<0, 1>>, coverage[1]) /\ CovLeq(coverage[1], <<1, 1>>)
            /\ matched_count + Len(missing[1]) = Len(recipe_ingredients)

\* a recipe partly covered by a two-ingredient pantry, one match by containment
\* of the pantry ingredient and one ingredient missing
C2_Witness ==
    /\ coverage # None
    /\ Len(pantry) = 2
    /\ recipe_ingredients = <<str_eggplant, str_rice, str_eggplant>>
    /\ pantry = <<str_salt, str_egg>>
    /\ missing[1] = <<str_rice>>

\* C3: a recipe with no ingredients scores coverage 1.0 and an empty missing
\* list, whatever the pantry.
C3_EmptyRecipeFullCoverage ==
    (coverage # None /\ recipe_ingredients = <<>>) =>
        /\ CovEq(coverage[1], <<1, 1>>) /\ coverage[1][2] > 0
        /\ missing[1] = <<>>

\* the empty recipe scored against the empty pantry
C3_Witness ==
    coverage # None /\ recipe_ingredients = <<>> /\ pantry = <<>>

RECURSIVE IsSubsequence(_, _)
\* a is b with some entries left out
IsSubsequence(a, b) ==
    IF a = <<>> THEN TRUE
    ELSE IF b = <<>> THEN FALSE
    ELSE IF Head(a) = Head(b) THEN IsSubsequence(Tail(a), Tail(b))
    ELSE IsSubsequence(a, Tail(b))

\* C4: scoring the same recipe against the pantry with one more ingredient
\* never gives a smaller coverage and never adds an entry to missing.
C4_CoverageMonotonic ==
    [][(/\ coverage # None
        /\ coverage' # None
        /\ recipe_ingredients' = recipe_ingredients
        /\ \E ing \in ScoredIngredients : pantry' = Append(pantry, ing))
       => (/\ CovLeq(coverage[1], coverage'[1])
           /\ IsSubsequence(missing'[1], missing[1]))]_vars

\* a pantry that grew twice: the first ingredient covered part of the recipe,
\* the second one covered more
C4_Witness ==
    /\ coverage # None
    /\ recipe_ingredients = <<str_egg, str_salt, str_rice>>
    /\ pantry = <<str_egg, str_salt>>
    /\ CovEq(coverage[1], <<2, 3>>)

-----------------------------------------------------------------------------
(* RecipeEngine: load_data, _build_ingredient_index and search_recipes.    *)
(* A row of recipes_df is [id, ingredients_list, minutes]; its DataFrame   *)
(* index is its position less one.  The dict ingredient_index is the set   *)
(* of the pairs <<key, row index>>: a key is present exactly when a pair   *)
(* holds it, since the code adds a row index to every key it creates.      *)

RECURSIVE IndexIngredients(_, _, _, _)
\* the inner loop of _build_ingredient_index over the ingredients of one row
IndexIngredients(ingredients, k, idx, index) ==
    IF k > Len(ingredients) THEN index
    ELSE IndexIngredients(ingredients, k + 1, idx,
             index \cup {<<normalize_ingredient(ingredients[k]), idx>>})

RECURSIVE IndexRows(_, _, _)
\* the outer loop of _build_ingredient_index from the i-th row on
IndexRows(df, i, index) ==
    IF i > Len(df) THEN index
    ELSE IndexRows(df, i + 1,
             IndexIngredients(df[i].ingredients_list, 1, i - 1, index))

\* RecipeEngine._build_ingredient_index
build_ingredient_index(df, index) ==
    IF df = <<>> THEN index ELSE IndexRows(df, 1, index)

\* load_data that indexes the first ingredient of each recipe only
load_data_first_ingredient_only(csv, index) ==
    IF csv = None
    THEN [recipes_df |-> <<>>, ingredient_index |-> index]
    ELSE [recipes_df |-> csv[1],
          ingredient_index |->
              index \cup {<<normalize_ingredient(csv[1][i].ingredients_list[1]),
                            i - 1>> :
                             i \in {j \in 1..Len(csv[1]) :
                                       csv[1][j].ingredients_list # <<>>}}]

\* RecipeEngine.load_data: csv is None when read_csv raises, else the rows read
load_data(csv, index) ==
    IF csv = None
    THEN [recipes_df |-> <<>>, ingredient_index |-> index]
    ELSE [recipes_df |-> csv[1],
          ingredient_index |-> build_ingredient_index(csv[1], index)]

\* [self._normalize_ingredient(ing) for ing in ingredients]
NormalizeAll(ingredients) ==
    [k \in 1..Len(ingredients) |-> normalize_ingredient(ingredients[k])]

RECURSIVE ScanRows(_, _, _, _, _)
\* the scan of search_recipes from the i-th row on: recipes_with_scores
ScanRows(df, normalized_pantry, max_time, i, recipes_with_scores) ==
    IF i > Len(df) THEN recipes_with_scores
    ELSE LET row == df[i]
             res == calculate_coverage(normalized_pantry,
                                       NormalizeAll(row.ingredients_list))
             recipe == [id |-> row.id,
                        pantry_coverage |-> res.coverage,
                        missing_ingredients |-> res.missing,
                        ingredients |-> row.ingredients_list,
                        time_minutes |-> row.minutes]
         IN  \* if max_time and row.get('minutes', 0) > max_time: continue
             IF max_time # None /\ max_time[1] # 0 /\ row.minutes > max_time[1]
             THEN ScanRows(df, normalized_pantry, max_time, i + 1,
                           recipes_with_scores)
             ELSE ScanRows(df, normalized_pantry, max_time, i + 1,
                           Append(recipes_with_scores, recipe))

\* x placed before the recipes of equal coverage: what sorting ascending and
\* reversing does to ties
InsertBeforeTies(sorted, x) ==
    LET n == Cardinality({k \in 1..Len(sorted) :
                 CovLess(x.pantry_coverage, sorted[k].pantry_coverage)})
    IN  SubSeq(sorted, 1, n) \o <<x>> \o SubSeq(sorted, n + 1, Len(sorted))

\* x placed into a list sorted by coverage descending, after the recipes of
\* equal coverage
InsertDescending(sorted, x) ==
    LET n == Cardinality({k \in 1..Len(sorted) :
                 CovLeq(x.pantry_coverage, sorted[k].pantry_coverage)})
    IN  SubSeq(sorted, 1, n) \o <<x>> \o SubSeq(sorted, n + 1, Len(sorted))

RECURSIVE SortFrom(_, _, _)
SortFrom(l, i, sorted) ==
    IF i > Len(l) THEN sorted
    ELSE SortFrom(l, i + 1, InsertDescending(sorted, l[i]))

\* list.sort(key=lambda x: x['pantry_coverage'], reverse=True): stable
sort_by_coverage(l) == SortFrom(l, 1, <<>>)

\* recipes_with_scores after the sort
ranked_recipes(df, pantry_ingredients, max_time) ==
    sort_by_coverage(
        ScanRows(df, NormalizeAll(pantry_ingredients), max_time, 1, <<>>))

\* Python's a // b for b # 0
FloorDiv(a, b) == IF b > 0 THEN a \div b ELSE (0 - a) \div (0 - b)

\* a slice bound as list slicing reads it
ClampIndex(n, len) ==
    LET m == IF n < 0 THEN n + len ELSE n
    IN  IF m < 0 THEN 0 ELSE IF m > len THEN len ELSE m

\* Python's l[start:end]
PySlice(l, start, end) ==
    SubSeq(l, ClampIndex(start, Len(l)) + 1, ClampIndex(end, Len(l)))

Return(v) == [outcome |-> "return", value |-> v]
Raise(e) == [outcome |-> "raise", value |-> e]

paginate_from_page_times_limit(recipes_with_scores, page, limit) ==
    IF limit = 0 THEN Raise("ZeroDivisionError")
    ELSE LET total_results == Len(recipes_with_scores)
             start_idx == page * limit
         IN  Return([recipes |-> PySlice(recipes_with_scores, start_idx,
                                         start_idx + limit),
                     total_results |-> total_results,
                     page |-> page,
                     total_pages |-> FloorDiv(total_results + limit - 1, limit)])

\* the pagination of search_recipes
paginate(recipes_with_scores, page, limit) ==
    IF limit = 0 THEN Raise("ZeroDivisionError")
    ELSE LET total_results == Len(recipes_with_scores)
             total_pages == FloorDiv(total_results + limit - 1, limit)
             start_idx == (page - 1) * limit
             end_idx == start_idx + limit
         IN  Return([recipes |-> PySlice(recipes_with_scores, start_idx, end_idx),
                     total_results |-> total_results,
                     page |-> page,
                     total_pages |-> total_pages])

search_recipes_no_empty_check(df, pantry_ingredients, max_time, page, limit) ==
    paginate(ranked_recipes(df, pantry_ingredients, max_time), page, limit)

\* RecipeEngine.search_recipes
search_recipes(df, pantry_ingredients, max_time, page, limit) ==
    IF df = <<>>
    THEN Return([recipes |-> <<>>, total_results |-> 0, page |-> page,
                 total_pages |-> 0])
    ELSE paginate(ranked_recipes(df, pantry_ingredients, max_time), page, limit)

-----------------------------------------------------------------------------
(* The search engine: an engine is constructed on a CSV file, then serves  *)
(* search requests one at a time.  search_recipes reads recipes_df alone,  *)
(* and every corpus a reload can install is one the construction installs. *)

RowPool ==
    {[id |-> 11, ingredients_list |-> <<str_egg, str_salt>>, minutes |-> 1],
     [id |-> 12, ingredients_list |-> <<str_cup_rice>>, minutes |-> 3],
     [id |-> 13, ingredients_list |-> <<str_salt, str_eggs2>>, minutes |-> 0],
     [id |-> 14, ingredients_list |-> <<>>, minutes |-> 2]}

\* the corpora: recipe ids are unique
Corpora ==
    {c \in SeqsUpTo(RowPool, MaxCorpus) :
        \A i, j \in 1..Len(c) : i # j => c[i].id # c[j].id}

\* what read_csv finds: an unreadable file, or a corpus
CsvFiles == {None} \cup {Some(c) : c \in Corpora}

PantryPool == {<<>>, <<str_Egg>>, <<str_salt, str_rice>>, <<str_cups>>}

Requests ==
    [pantry_ingredients : PantryPool,
     max_time : {None} \cup {Some(t) : t \in 0..MaxTime},
     page : (0 - 1)..MaxPage,
     limit : (0 - 1)..MaxLimit]

\* RecipeEngine.__init__: ingredient_index = {}, then load_data()
EngineInit ==
    /\ \E csv \in CsvFiles :
           LET loaded == load_data(csv, {})
           IN  /\ recipes_df = loaded.recipes_df
               /\ ingredient_index = loaded.ingredient_index
    /\ request = None
    /\ response = None

\* one call of search_recipes
Search(q) ==
    /\ request = None
    /\ request' = Some(q)
    /\ response' = Some(search_recipes(recipes_df, q.pantry_ingredients,
                                       q.max_time, q.page, q.limit))
    /\ UNCHANGED <<recipes_df, ingredient_index>>

\* the caller takes the response
Deliver ==
    /\ request # None
    /\ request' = None
    /\ response' = None
    /\ UNCHANGED <<recipes_df, ingredient_index>>

InitSearch == NormIdle /\ CovIdle /\ EngineInit /\ MLIdle /\ AdvIdle /\ ThreadsIdle

NextSearch ==
    \/ \E q \in Requests : Search(q) /\ UNCHANGED <<threadVars, normVars, covVars, mlVars, advVars>>
    \/ Deliver /\ UNCHANGED <<threadVars, normVars, covVars, mlVars, advVars>>

SpecSearch == InitSearch /\ [][NextSearch]_vars

\* the position in the corpus of the recipe with this id
CorpusPosition(id) == CHOOSE k \in 1..Len(recipes_df) : recipes_df[k].id = id

Returned == response # None /\ response[1].outcome = "return"

\* C5: a result page lists its recipes by pantry_coverage descending, and
\* two recipes of equal coverage in the order of the corpus scan.
C5_RankingDescendingAndStable ==
    Returned =>
        LET page == response[1].value.recipes
        IN  \A i, j \in 1..Len(page) :
                i < j =>
                    /\ CovLeq(page[j].pantry_coverage, page[i].pantry_coverage)
                    /\ CovEq(page[i].pantry_coverage, page[j].pantry_coverage)
                           => CorpusPosition(page[i].id) < CorpusPosition(page[j].id)

\* a page whose first two recipes tie and were scanned after the recipe that
\* follows them on the page
C5_Witness ==
    /\ Returned
    /\ LET page == response[1].value.recipes
       IN  /\ Len(page) = 3
           /\ CovEq(page[1].pantry_coverage, page[2].pantry_coverage)
           /\ CovLess(page[3].pantry_coverage, page[2].pantry_coverage)
           /\ CorpusPosition(page[3].id) < CorpusPosition(page[1].id)

RECURSIVE ConcatPages(_, _, _)
\* the pages first..last of the request q, one after the other
ConcatPages(q, first, last) ==
    IF first > last THEN <<>>
    ELSE search_recipes(recipes_df, q.pantry_ingredients, q.max_time,
                        first, q.limit).value.recipes
         \o ConcatPages(q, first + 1, last)

\* C6: for page >= 1 and limit L >= 1 the search returns, total_pages is
\* ceil(total_results / L), the pages 1..total_pages are non-empty and every
\* later page is empty, and the pages 1..total_pages one after the other are
\* the full sorted result list.
C6_PaginationExact ==
    (response # None /\ request[1].limit >= 1 /\ request[1].page >= 1) =>
        LET q == request[1]
            full == ranked_recipes(recipes_df, q.pantry_ingredients, q.max_time)
            res == response[1].value
        IN  /\ response[1].outcome = "return"
            /\ res.total_results = Len(full)
            /\ res.page = q.page
            /\ res.total_pages >= 0
            /\ res.total_pages * q.limit >= Len(full)
            /\ (res.total_pages - 1) * q.limit < Len(full)
            /\ (res.recipes # <<>>) <=> (q.page <= res.total_pages)
            /\ \A p \in 1..res.total_pages :
                   search_recipes(recipes_df, q.pantry_ingredients, q.max_time,
                                  p, q.limit).value.recipes # <<>>
            /\ ConcatPages(q, 1, res.total_pages) = full

\* the second of three pages, and a page beyond the last one
C6_Witness ==
    /\ Returned
    /\ request[1].limit = 1
    /\ request[1].page = 2
    /\ response[1].value.total_pages = 3
    /\ Len(response[1].value.recipes) = 1

\* C7: a search with page < 1 or limit < 1 fails with InvalidQuery.
C7_MalformedPaginationRejected ==
    (response # None /\ (request[1].page < 1 \/ request[1].limit < 1)) =>
        response[1] = Raise("InvalidQuery")

\* C8: with max_time supplied no returned recipe takes longer than max_time
\* and total_results counts the recipes within max_time; with no max_time
\* every recipe of the corpus is counted.
C8_MaxTimeFilters ==
    Returned =>
        LET q == request[1]
            res == response[1].value
        IN  IF q.max_time # None
            THEN /\ \A i \in 1..Len(res.recipes) :
                        res.recipes[i].time_minutes <= q.max_time[1]
                 /\ res.total_results =
                        Cardinality({k \in 1..Len(recipes_df) :
                                        recipes_df[k].minutes <= q.max_time[1]})
            ELSE res.total_results = Len(recipes_df)

\* C9: on an empty corpus every search returns no recipes, total_results 0,
\* total_pages 0 and the requested page, and raises nothing.
C9_EmptyCorpusEmptyResult ==
    (response # None /\ recipes_df = <<>>) =>
        response[1] = Return([recipes |-> <<>>, total_results |-> 0,
                              page |-> request[1].page, total_pages |-> 0])

\* a search of the empty corpus with limit 0 and a max_time
C9_Witness ==
    /\ Returned
    /\ recipes_df = <<>>
    /\ request[1].limit = 0
    /\ request[1].page = 0
    /\ request[1].max_time = Some(0)

-----------------------------------------------------------------------------
(* RecipeEngine reloading its corpus: load_data called again on the same   *)
(* engine, the file at data_path having changed or become unreadable.      *)

\* RecipeEngine.load_data() with read_csv finding csv
LoadData(csv) ==
    /\ LET loaded == load_data(csv, ingredient_index)
       IN  /\ recipes_df' = loaded.recipes_df
           /\ ingredient_index' = loaded.ingredient_index
    /\ UNCHANGED <<request, response>>

InitLoad == NormIdle /\ CovIdle /\ EngineInit /\ MLIdle /\ AdvIdle /\ ThreadsIdle

NextLoad ==
    \E csv \in CsvFiles :
        LoadData(csv) /\ UNCHANGED <<threadVars, normVars, covVars, mlVars, advVars>>

SpecLoad == InitLoad /\ [][NextLoad]_vars

\* C12: after any sequence of load_data calls, every entry of
\* ingredient_index refers to a row of the current recipes_df, and that row
\* has the ingredient: no entry of a superseded corpus is left.
C12_IndexRefersToCurrentRows ==
    \A entry \in ingredient_index :
        /\ entry[2] < Len(recipes_df)
        /\ \E k \in 1..Len(recipes_df[entry[2] + 1].ingredients_list) :
               normalize_ingredient(
                   recipes_df[entry[2] + 1].ingredients_list[k]) = entry[1]

-----------------------------------------------------------------------------
(* MLRecommendationEngine: train, save_model, load_model and __init__.     *)
(* A recipe handed to train is [id, terms], terms being the tokens of its  *)
(* text "name ingredients tags" that the vectorizer keeps (no stop words). *)
(* TfidfVectorizer.fit_transform learns the vocabulary, the union of the   *)
(* terms, and raises ValueError when it is empty; the row of a recipe is   *)
(* kept as the set of its terms, the columns that are not zero.            *)

\* the vocabulary fit_transform learns
FitVocabulary(recipes) == UNION {recipes[i].terms : i \in 1..Len(recipes)}

\* TfidfVectorizer(...): a vectorizer that is not fitted yet
TfidfVectorizer == [fitted |-> FALSE, vocabulary |-> {}]

\* the vectorizer after fit_transform learned the vocabulary
Fitted(vocabulary) == [fitted |-> TRUE, vocabulary |-> vocabulary]

\* the matrix fit_transform returns
FitTransform(recipes) == [i \in 1..Len(recipes) |-> recipes[i].terms]

\* [recipe.get('id', i) for i, recipe in enumerate(recipes)]
IdsOf(recipes) == [i \in 1..Len(recipes) |-> recipes[i].id]

\* the number of rows of recipe_vectors (no matrix, no row)
RowCount(vectors) == IF vectors = None THEN 0 ELSE Len(vectors[1])

\* the model file after pickle.dump fails part-way: truncated, unreadable
CorruptFile ==
    [readable |-> FALSE, vectorizer |-> None, recipe_vectors |-> None,
     recipe_ids |-> <<>>]

\* what save_model pickles
ModelData(vec, vectors, ids) ==
    [readable |-> TRUE, vectorizer |-> vec, recipe_vectors |-> vectors,
     recipe_ids |-> ids]

\* the ways the file system answers save_model: the dump succeeds, open
\* raises (the file is as before), or the dump raises after open truncated
IOOutcomes == {"written", "open_raises", "dump_raises"}

\* save_model that writes nothing
save_model_writes_nothing(trained, vec, vectors, ids, file, io) == file

\* MLRecommendationEngine.save_model on an engine with the given fields: the
\* model file afterwards (every exception is caught and logged)
save_model(trained, vec, vectors, ids, file, io) ==
    IF ~trained THEN file
    ELSE IF io = "written" THEN Some(ModelData(vec, vectors, ids))
    ELSE IF io = "open_raises" THEN file
    ELSE Some(CorruptFile)

\* the recipes handed to train
RecipePool ==
    {[id |-> 1, terms |-> {"tomato", "garlic"}],
     [id |-> 2, terms |-> {"tomato"}],
     [id |-> 3, terms |-> {}],
     [id |-> 4, terms |-> {"tomato"}]}

TrainInputs == SeqsUpTo(RecipePool, MaxTrain)

\* the recipe of the pool with the given id
PoolRecipe(id) == CHOOSE r \in RecipePool : r.id = id

\* a list of four recipes: more than the three candidates that
\* get_recommendations fetches from the index for n_recommendations = 1
FourRecipes == <<PoolRecipe(1), PoolRecipe(2), PoolRecipe(4), PoolRecipe(3)>>

\* the recipe lists the queried engines are trained on
RecommendInputs == TrainInputs \cup {FourRecipes}

\* MLRecommendationEngine.__init__ on a model directory with no model file
MLInit ==
    /\ vectorizer = None
    /\ recipe_vectors = None
    /\ recipe_ids = <<>>
    /\ is_trained = FALSE
    /\ model_file = None

\* train without the check of an empty recipe list
TrainWithoutEmptyCheck(recipes, io) ==
    /\ recipe_ids' = IdsOf(recipes)
    /\ IF FitVocabulary(recipes) = {}
       THEN /\ vectorizer' = Some(TfidfVectorizer)
            /\ UNCHANGED <<recipe_vectors, is_trained, model_file>>
       ELSE /\ vectorizer' = Some(Fitted(FitVocabulary(recipes)))
            /\ recipe_vectors' = Some(FitTransform(recipes))
            /\ is_trained' = TRUE
            /\ model_file' = save_model(is_trained', vectorizer',
                                        recipe_vectors', recipe_ids',
                                        model_file, io)

\* MLRecommendationEngine.train(recipes)
Train(recipes, io) ==
    IF recipes = <<>>
    THEN UNCHANGED mlVars
    ELSE /\ recipe_ids' = IdsOf(recipes)
         /\ IF FitVocabulary(recipes) = {}
            THEN \* fit_transform raises ValueError: train ends here, the
                 \* new vectorizer assigned and not fitted
                 /\ vectorizer' = Some(TfidfVectorizer)
                 /\ UNCHANGED <<recipe_vectors, is_trained, model_file>>
            ELSE /\ vectorizer' = Some(Fitted(FitVocabulary(recipes)))
                 /\ recipe_vectors' = Some(FitTransform(recipes))
                 /\ is_trained' = TRUE
                 /\ model_file' = save_model(is_trained', vectorizer',
                                             recipe_vectors', recipe_ids',
                                             model_file, io)

\* MLRecommendationEngine.save_model()
SaveModel(io) ==
    /\ model_file' = save_model(is_trained, vectorizer, recipe_vectors,
                                recipe_ids, model_file, io)
    /\ UNCHANGED <<vectorizer, recipe_vectors, recipe_ids, is_trained>>

\* MLRecommendationEngine.load_model()
LoadModel ==
    IF model_file = None \/ ~model_file[1].readable
    THEN \* no file, or pickle.load raises and the exception is logged
         UNCHANGED mlVars
    ELSE /\ vectorizer' = model_file[1].vectorizer
         /\ recipe_vectors' = model_file[1].recipe_vectors
         /\ recipe_ids' = model_file[1].recipe_ids
         /\ is_trained' = TRUE
         /\ UNCHANGED model_file

\* MLRecommendationEngine(model_path): a new engine on the same directory
Construct ==
    IF model_file = None \/ ~model_file[1].readable
    THEN /\ vectorizer' = None
         /\ recipe_vectors' = None
         /\ recipe_ids' = <<>>
         /\ is_trained' = FALSE
         /\ UNCHANGED model_file
    ELSE /\ vectorizer' = model_file[1].vectorizer
         /\ recipe_vectors' = model_file[1].recipe_vectors
         /\ recipe_ids' = model_file[1].recipe_ids
         /\ is_trained' = TRUE
         /\ UNCHANGED model_file

InitML == NormIdle /\ CovIdle /\ EngineIdle /\ MLInit /\ AdvIdle /\ ThreadsIdle

NextML ==
    \/ \E recipes \in TrainInputs, io \in IOOutcomes :
           Train(recipes, io) /\ UNCHANGED <<threadVars, normVars, covVars, engineVars, advVars>>
    \/ \E io \in IOOutcomes :
           SaveModel(io) /\ UNCHANGED <<threadVars, normVars, covVars, engineVars, advVars>>
    \/ LoadModel /\ UNCHANGED <<threadVars, normVars, covVars, engineVars, advVars>>
    \/ Construct /\ UNCHANGED <<threadVars, normVars, covVars, engineVars, advVars>>

SpecML == InitML /\ [][NextML]_vars

\* C10: in every state of the engine recipe_vectors has as many rows as
\* recipe_ids has entries.
C10_RowsMatchIds == RowCount(recipe_vectors) = Len(recipe_ids)

-----------------------------------------------------------------------------
(* Similarity scores and the queries of MLRecommendationEngine.            *)
(* The rows of the TF-IDF matrix are L2-normalised by the vectorizer, so   *)
(* the cosine of two rows depends on the columns they share. A score is    *)
(* kept as the pair <<num, den>>, den > 0, of the square of the cosine     *)
(* (with its sign), and a min_score as the pair of its square: the order   *)
(* of two scores is the order of their pairs, compared as the coverages.   *)

Min(a, b) == IF a < b THEN a ELSE b

\* l[::-1]
Reverse(l) == [i \in 1..Len(l) |-> l[Len(l) + 1 - i]]

\* l[idx] of a Python list: a negative idx counts from the end; None stands
\* for IndexError
PyItem(l, idx) ==
    LET i == IF idx < 0 THEN idx + Len(l) ELSE idx
    IN  IF i < 0 \/ i >= Len(l) THEN None ELSE Some(l[i + 1])

\* l.index(x): the first position of x in l, from 0
ListIndex(l, x) ==
    CHOOSE i \in 0..(Len(l) - 1) :
        l[i + 1] = x /\ \A j \in 0..(i - 1) : l[j + 1] # x

\* the cosine of two rows given as the sets of their non-zero columns; a
\* row of zeros has cosine 0 with every row
Cosine(a, b) ==
    IF a = {} \/ b = {}
    THEN <<0, 1>>
    ELSE <<Cardinality(a \cap b) * Cardinality(a \cap b),
           Cardinality(a) * Cardinality(b)>>

\* cosine_similarity(query_vector, recipe_vectors)[0]
cosine_similarity(query, vectors) ==
    [i \in 1..Len(vectors) |-> Cosine(query, vectors[i])]

\* the values np.argsort(similarities) can return: the positions, from 0,
\* in ascending order of score; the sort is not stable, equal scores come
\* in any order
Argsorts(similarities) ==
    LET n == Len(similarities)
        sorted == {p \in [1..n -> 1..n] :
                     /\ \A i, j \in 1..n : i # j => p[i] # p[j]
                     /\ \A i \in 1..(n - 1) :
                            CovLeq(similarities[p[i]], similarities[p[i + 1]])}
    IN  {[i \in 1..n |-> p[i] - 1] : p \in sorted}

\* vectorizer.transform([' '.join(pantry_ingredients)]): the terms of the
\* query that are in the vocabulary
Transform(vec, terms) == terms \cap vec.vocabulary

\* the loop of MLRecommendationEngine.get_recommendations over top_indices
\* from its i-th entry: an excluded recipe is skipped, a pair is appended,
\* and the loop breaks once there are n_recommendations pairs
RECURSIVE RecommendLoop(_, _, _, _, _, _, _)
RecommendLoop(top_indices, i, ids, similarities, n, exclude_ids, recommendations) ==
    IF i > Len(top_indices) THEN Return(recommendations)
    ELSE LET idx == top_indices[i]
             recipe_id == PyItem(ids, idx)
         IN  IF recipe_id = None THEN Raise("IndexError")
             ELSE IF recipe_id[1] \in exclude_ids
             THEN RecommendLoop(top_indices, i + 1, ids, similarities, n,
                                exclude_ids, recommendations)
             ELSE LET appended == Append(recommendations,
                                         <<recipe_id[1], similarities[idx + 1]>>)
                  IN  IF Len(appended) >= n THEN Return(appended)
                      ELSE RecommendLoop(top_indices, i + 1, ids,
                               similarities, n, exclude_ids, appended)

\* MLRecommendationEngine.get_recommendations(pantry_ingredients,
\* n_recommendations, exclude_ids) on an engine with the given fields: the
\* outcomes it can have, one for each order argsort can return. exclude_ids
\* is the set of the ids of the list ({} for None and for []).
ml_get_recommendations(trained, vec, vectors, ids, pantry_ingredients, n, exclude_ids) ==
    IF ~trained THEN {Return(<<>>)}
    ELSE IF ~vec[1].fitted THEN {Raise("NotFittedError")}
    ELSE LET query_vector == Transform(vec[1], pantry_ingredients)
             similarities == cosine_similarity(query_vector, vectors[1])
         IN  {RecommendLoop(Reverse(order), 1, ids, similarities, n,
                            exclude_ids, <<>>) :
                  order \in Argsorts(similarities)}

\* [(self.recipe_ids[idx], float(similarities[idx])) for idx in top_indices]
SimilarPairs(top_indices, ids, similarities) ==
    IF \E i \in 1..Len(top_indices) : PyItem(ids, top_indices[i]) = None
    THEN Raise("IndexError")
    ELSE Return([i \in 1..Len(top_indices) |->
                    <<PyItem(ids, top_indices[i])[1],
                      similarities[top_indices[i] + 1]>>])

\* MLRecommendationEngine.get_similar_recipes(recipe_id, n_similar): the
\* outcomes it can have; an id that is not in recipe_ids returns the empty
\* list, and the first of the descending order is dropped as the recipe
\* itself
ml_get_similar_recipes(trained, vectors, ids, recipe_id, n_similar) ==
    IF ~trained THEN {Return(<<>>)}
    ELSE IF \A i \in 1..Len(ids) : ids[i] # recipe_id THEN {Return(<<>>)}
    ELSE LET recipe_idx == ListIndex(ids, recipe_id)
         IN  IF recipe_idx >= Len(vectors[1]) THEN {Raise("IndexError")}
             ELSE LET similarities ==
                          cosine_similarity(vectors[1][recipe_idx + 1],
                                            vectors[1])
                  IN  {SimilarPairs(PySlice(Reverse(order), 1, n_similar + 1),
                                    ids, similarities) :
                           order \in Argsorts(similarities)}

\* get_model_stats that reports every engine as trained
get_model_stats_always_trained(trained, ids) ==
    [is_trained |-> TRUE, num_recipes |-> Len(ids)]

\* MLRecommendationEngine.get_model_stats(): is_trained and num_recipes of
\* the dictionary (num_features is the column count of the matrix, which
\* the rows as sets of terms do not keep)
ml_get_model_stats(trained, ids) ==
    IF ~trained
    THEN [is_trained |-> FALSE, num_recipes |-> 0]
    ELSE [is_trained |-> TRUE, num_recipes |-> Len(ids)]

-----------------------------------------------------------------------------
(* AdvancedMLEngine. recipe_vectors is the dense matrix toarray() returns: *)
(* a row is the tuple of its columns, 1 where the recipe has the term of   *)
(* the column and 0 elsewhere, the columns in the alphabetical order of    *)
(* the vocabulary. The FAISS index keeps its dimension and the rows added  *)
(* to it.                                                                  *)

\* the terms of the recipes and of the queries, in alphabetical order
SortedTerms == <<"garlic", "tomato">>

TermRank(t) == CHOOSE i \in 1..Len(SortedTerms) : SortedTerms[i] = t

\* vectorizer.vocabulary_[t]: the column of term t, from 1
FeatureIndex(vocabulary, t) ==
    1 + Cardinality({u \in vocabulary : TermRank(u) < TermRank(t)})

\* the dense row of a text with the given terms
DenseRow(vocabulary, terms) ==
    [c \in 1..Cardinality(vocabulary) |->
        IF \E t \in terms \cap vocabulary : FeatureIndex(vocabulary, t) = c
        THEN 1 ELSE 0]

\* fit_transform(recipe_texts).toarray().astype('float32')
DenseFitTransform(recipes) ==
    [i \in 1..Len(recipes) |->
        DenseRow(FitVocabulary(recipes), recipes[i].terms)]

\* the number of columns in which both rows are not zero
Dot(a, b) == Cardinality({c \in 1..Len(a) : a[c] = 1 /\ b[c] = 1})

\* the inner product of two rows after normalize_L2, which is also
\* cosine_similarity of the two rows: a row of zeros stays a row of zeros
DenseCosine(a, b) ==
    IF Dot(a, a) = 0 \/ Dot(b, b) = 0
    THEN <<0, 1>>
    ELSE <<Dot(a, b) * Dot(a, b), Dot(a, a) * Dot(b, b)>>

\* the score FAISS gives the entries that pad a result: the lowest float32
LowestScore == <<0 - 1, 1>>

\* AdvancedMLEngine._build_faiss_index(): IndexFlatIP(dimension) with the
\* rows of recipe_vectors added
build_faiss_index(vectors) ==
    [d |-> Len(vectors[1][1]), rows |-> vectors[1]]

\* faiss_index.search(query, k): the outcomes it can have. search asserts
\* that the query has the dimension of the index and that k > 0; it returns
\* the k best rows, best first, equal scores in any order, as pairs
\* <<idx, score>> with idx from 0, padded with idx -1 when the index has
\* fewer than k rows.
faiss_search(index, query, k) ==
    IF Len(query) # index.d \/ k <= 0 THEN {Raise("AssertionError")}
    ELSE LET scores == [i \in 1..Len(index.rows) |->
                           DenseCosine(query, index.rows[i])]
         IN  {Return([j \in 1..k |->
                        IF j <= Len(order)
                        THEN <<Reverse(order)[j], scores[Reverse(order)[j] + 1]>>
                        ELSE <<0 - 1, LowestScore>>]) :
                  order \in Argsorts(scores)}

\* faiss_index.bin after faiss.write_index failed part-way: truncated,
\* faiss.read_index raises on it
CorruptIndexFile == [d |-> 0, rows |-> <<>>]

\* the ways the file system answers AdvancedMLEngine.save_model: those of
\* the model file, and write_index raising after the model was written
AdvancedIOOutcomes == IOOutcomes \cup {"index_raises"}

\* what AdvancedMLEngine.save_model pickles
AdvancedModelData(vec, vectors, ids, usef) ==
    [readable |-> TRUE, vectorizer |-> vec, recipe_vectors |-> vectors,
     recipe_ids |-> ids, use_faiss |-> usef]

\* AdvancedMLEngine.save_model(): the model file and the index file
\* afterwards; the index is written after the model, when it is in use
adv_save_model(trained, vec, vectors, ids, usef, index, file, index_file, io) ==
    IF ~trained \/ io = "open_raises" THEN <<file, index_file>>
    ELSE IF io = "dump_raises" THEN <<Some(CorruptFile), index_file>>
    ELSE <<Some(AdvancedModelData(vec, vectors, ids, usef)),
           IF usef /\ index # None
           THEN IF io = "index_raises" THEN Some(CorruptIndexFile) ELSE index
           ELSE index_file>>

\* the loop of AdvancedMLEngine.get_recommendations over the results of
\* the FAISS search, without the test of min_score
RECURSIVE FaissLoopNoMinScore(_, _, _, _, _, _, _)
FaissLoopNoMinScore(results, i, ids, n, exclude_ids, min_score, recommendations) ==
    IF i > Len(results) THEN Return(recommendations)
    ELSE LET idx == results[i][1]
             score == results[i][2]
         IN  IF idx < 0 \/ idx >= Len(ids) \/ ids[idx + 1] \in exclude_ids
             THEN FaissLoopNoMinScore(results, i + 1, ids, n, exclude_ids,
                                      min_score, recommendations)
             ELSE LET appended == Append(recommendations,
                                         <<ids[idx + 1], score>>)
                  IN  IF Len(appended) >= n THEN Return(appended)
                      ELSE FaissLoopNoMinScore(results, i + 1, ids, n,
                               exclude_ids, min_score, appended)

\* the loop of AdvancedMLEngine.get_recommendations over the results of
\* the FAISS search
RECURSIVE FaissLoop(_, _, _, _, _, _, _)
FaissLoop(results, i, ids, n, exclude_ids, min_score, recommendations) ==
    IF i > Len(results) THEN Return(recommendations)
    ELSE LET idx == results[i][1]
             score == results[i][2]
         IN  IF \/ idx < 0 \/ idx >= Len(ids)
                \/ ids[idx + 1] \in exclude_ids
                \/ CovLess(score, min_score)
             THEN FaissLoop(results, i + 1, ids, n, exclude_ids, min_score,
                            recommendations)
             ELSE LET appended == Append(recommendations,
                                         <<ids[idx + 1], score>>)
                  IN  IF Len(appended) >= n THEN Return(appended)
                      ELSE FaissLoop(results, i + 1, ids, n, exclude_ids,
                                     min_score, appended)

\* the loop of the fallback of AdvancedMLEngine.get_recommendations
RECURSIVE FallbackLoop(_, _, _, _, _, _, _, _)
FallbackLoop(top_indices, i, ids, similarities, n, exclude_ids, min_score, recommendations) ==
    IF i > Len(top_indices) THEN Return(recommendations)
    ELSE LET idx == top_indices[i]
             recipe_id == PyItem(ids, idx)
         IN  IF recipe_id = None THEN Raise("IndexError")
             ELSE IF \/ recipe_id[1] \in exclude_ids
                     \/ CovLess(similarities[idx + 1], min_score)
             THEN FallbackLoop(top_indices, i + 1, ids, similarities, n,
                               exclude_ids, min_score, recommendations)
             ELSE LET appended == Append(recommendations,
                                         <<recipe_id[1], similarities[idx + 1]>>)
                  IN  IF Len(appended) >= n THEN Return(appended)
                      ELSE FallbackLoop(top_indices, i + 1, ids, similarities,
                               n, exclude_ids, min_score, appended)

\* the fallback of AdvancedMLEngine.get_recommendations: cosine_similarity
\* and argsort over recipe_vectors
recommendations_fallback(vectors, ids, query_vector, n, exclude_ids, min_score) ==
    LET similarities ==
            [i \in 1..Len(vectors[1]) |->
                DenseCosine(query_vector, vectors[1][i])]
    IN  {FallbackLoop(Reverse(order), 1, ids, similarities, n, exclude_ids,
                      min_score, <<>>) :
             order \in Argsorts(similarities)}

\* the FAISS branch of AdvancedMLEngine.get_recommendations
recommendations_faiss(index, ids, query_vector, n, exclude_ids, min_score) ==
    {IF found.outcome = "raise" THEN found
     ELSE FaissLoop(found.value, 1, ids, n, exclude_ids, min_score, <<>>) :
         found \in faiss_search(index[1], query_vector, Min(n * 3, Len(ids)))}

\* AdvancedMLEngine.get_recommendations(pantry_ingredients,
\* n_recommendations, exclude_ids, min_score): the outcomes it can have.
\* faiss.normalize_L2 is called before the branch: the name faiss is not
\* bound when the import failed.
adv_get_recommendations(available, trained, vec, vectors, ids, usef, index, pantry_ingredients, n, exclude_ids, min_score) ==
    IF ~trained THEN {Return(<<>>)}
    ELSE IF ~vec[1].fitted THEN {Raise("NotFittedError")}
    ELSE IF ~available THEN {Raise("NameError")}
    ELSE LET query_vector == DenseRow(vec[1].vocabulary, pantry_ingredients)
         IN  IF usef /\ index # None
             THEN recommendations_faiss(index, ids, query_vector, n,
                                        exclude_ids, min_score)
             ELSE recommendations_fallback(vectors, ids, query_vector, n,
                                           exclude_ids, min_score)

\* the loop of AdvancedMLEngine.get_similar_recipes over the results of the
\* FAISS search: the row of the recipe is skipped
RECURSIVE SimilarLoop(_, _, _, _, _, _)
SimilarLoop(results, i, ids, recipe_idx, n_similar, similar_recipes) ==
    IF i > Len(results) THEN Return(similar_recipes)
    ELSE LET idx == results[i][1]
         IN  IF idx = recipe_idx
             THEN SimilarLoop(results, i + 1, ids, recipe_idx, n_similar,
                              similar_recipes)
             ELSE IF PyItem(ids, idx) = None THEN Raise("IndexError")
             ELSE LET appended == Append(similar_recipes,
                                         <<PyItem(ids, idx)[1], results[i][2]>>)
                  IN  IF Len(appended) >= n_similar THEN Return(appended)
                      ELSE SimilarLoop(results, i + 1, ids, recipe_idx,
                                       n_similar, appended)

\* the fallback of AdvancedMLEngine.get_similar_recipes
similar_fallback(vectors, ids, recipe_idx, n_similar) ==
    LET similarities ==
            [i \in 1..Len(vectors[1]) |->
                DenseCosine(vectors[1][recipe_idx + 1], vectors[1][i])]
    IN  {SimilarPairs(PySlice(Reverse(order), 1, n_similar + 1), ids,
                      similarities) :
             order \in Argsorts(similarities)}

\* the FAISS branch of AdvancedMLEngine.get_similar_recipes
similar_faiss(index, vectors, ids, recipe_idx, n_similar) ==
    {IF found.outcome = "raise" THEN found
     ELSE SimilarLoop(found.value, 1, ids, recipe_idx, n_similar, <<>>) :
         found \in faiss_search(index[1], vectors[1][recipe_idx + 1],
                                n_similar + 1)}

\* AdvancedMLEngine.get_similar_recipes(recipe_id, n_similar): the outcomes
\* it can have. recipe_vectors[recipe_idx:recipe_idx+1] is empty when
\* recipe_idx is past the last row, and both branches raise on it.
adv_get_similar_recipes(trained, vectors, ids, usef, index, recipe_id, n_similar) ==
    IF ~trained THEN {Return(<<>>)}
    ELSE IF \A i \in 1..Len(ids) : ids[i] # recipe_id THEN {Return(<<>>)}
    ELSE LET recipe_idx == ListIndex(ids, recipe_id)
         IN  IF recipe_idx >= Len(vectors[1])
             THEN {Raise(IF usef /\ index # None THEN "IndexError"
                         ELSE "ValueError")}
             ELSE IF usef /\ index # None
             THEN similar_faiss(index, vectors, ids, recipe_idx, n_similar)
             ELSE similar_fallback(vectors, ids, recipe_idx, n_similar)

\* AdvancedMLEngine.get_model_stats(): is_trained, num_recipes and
\* using_faiss of the dictionary
adv_get_model_stats(trained, ids, usef, index) ==
    IF ~trained
    THEN [is_trained |-> FALSE, num_recipes |-> 0, using_faiss |-> FALSE]
    ELSE [is_trained |-> TRUE, num_recipes |-> Len(ids),
          using_faiss |-> usef /\ index # None]

-----------------------------------------------------------------------------
(* An engine of either class serving queries between trainings.            *)

EngineClasses == {"MLRecommendationEngine", "AdvancedMLEngine"}

\* the pantries of the queries, as the terms of their text
QueryPantries == SUBSET {"garlic", "tomato"}

\* the exclude_ids of the queries ({} for None)
ExcludeLists == {{}, {1}, {2, 4}, {1, 2, 4}}

\* the min_score of the queries: 0.0 and the square root of 1/2
MinScores == {<<0, 1>>, <<1, 2>>}

\* the recipe ids asked for; no recipe of the pool has id 9
QueryIds == {1, 2, 3, 9}

MLRecommendRequests ==
    [op : {"get_recommendations"}, pantry_ingredients : QueryPantries,
     n_recommendations : 0..MaxRecommendations, exclude_ids : ExcludeLists]

AdvRecommendRequests ==
    [op : {"get_recommendations"}, pantry_ingredients : QueryPantries,
     n_recommendations : 0..MaxRecommendations, exclude_ids : ExcludeLists,
     min_score : MinScores]

SimilarRequests ==
    [op : {"get_similar_recipes"}, recipe_id : QueryIds,
     n_similar : 0..MaxRecommendations]

StatsRequest == [op |-> "get_model_stats"]

\* __init__ of either class on a model directory with no model file;
\* FAISS_AVAILABLE is decided when advanced_ml_engine is imported
RecommendInit ==
    /\ MLInit
    /\ engine_class \in EngineClasses
    /\ faiss_available \in
           IF engine_class = "AdvancedMLEngine" THEN BOOLEAN ELSE {FALSE}
    /\ use_faiss = faiss_available
    /\ faiss_index = None /\ faiss_file = None
    /\ ml_request = None /\ ml_response = None

\* AdvancedMLEngine.train(recipes, use_faiss)
AdvTrain(recipes, use_faiss_arg, io) ==
    IF recipes = <<>>
    THEN UNCHANGED <<mlVars, faiss_index, faiss_file>>
    ELSE /\ recipe_ids' = IdsOf(recipes)
         /\ IF FitVocabulary(recipes) = {}
            THEN \* fit_transform raises ValueError: train ends here
                 /\ vectorizer' = Some(TfidfVectorizer)
                 /\ UNCHANGED <<recipe_vectors, is_trained, model_file,
                                faiss_index, faiss_file>>
            ELSE /\ vectorizer' = Some(Fitted(FitVocabulary(recipes)))
                 /\ recipe_vectors' = Some(DenseFitTransform(recipes))
                 /\ faiss_index' =
                        IF use_faiss_arg /\ faiss_available
                        THEN Some(build_faiss_index(recipe_vectors'))
                        ELSE faiss_index
                 /\ is_trained' = TRUE
                 /\ LET saved == adv_save_model(is_trained', vectorizer',
                                      recipe_vectors', recipe_ids', use_faiss,
                                      faiss_index', model_file, faiss_file, io)
                    IN  model_file' = saved[1] /\ faiss_file' = saved[2]

\* MLRecommendationEngine.get_recommendations(...)
MLRecommend(q) ==
    /\ ml_request' = Some(q)
    /\ \E result \in ml_get_recommendations(is_trained, vectorizer,
                         recipe_vectors, recipe_ids, q.pantry_ingredients,
                         q.n_recommendations, q.exclude_ids) :
           ml_response' = Some(result)

\* MLRecommendationEngine.get_similar_recipes(...)
MLSimilar(q) ==
    /\ ml_request' = Some(q)
    /\ \E result \in ml_get_similar_recipes(is_trained, recipe_vectors,
                         recipe_ids, q.recipe_id, q.n_similar) :
           ml_response' = Some(result)

\* MLRecommendationEngine.get_model_stats()
MLStats ==
    /\ ml_request' = Some(StatsRequest)
    /\ ml_response' = Some(Return(ml_get_model_stats(is_trained, recipe_ids)))

\* AdvancedMLEngine.get_recommendations(...)
AdvRecommend(q) ==
    /\ ml_request' = Some(q)
    /\ \E result \in adv_get_recommendations(faiss_available, is_trained,
                         vectorizer, recipe_vectors, recipe_ids, use_faiss,
                         faiss_index, q.pantry_ingredients,
                         q.n_recommendations, q.exclude_ids, q.min_score) :
           ml_response' = Some(result)

\* AdvancedMLEngine.get_similar_recipes(...)
AdvSimilar(q) ==
    /\ ml_request' = Some(q)
    /\ \E result \in adv_get_similar_recipes(is_trained, recipe_vectors,
                         recipe_ids, use_faiss, faiss_index, q.recipe_id,
                         q.n_similar) :
           ml_response' = Some(result)

\* AdvancedMLEngine.get_model_stats()
AdvStats ==
    /\ ml_request' = Some(StatsRequest)
    /\ ml_response' = Some(Return(adv_get_model_stats(is_trained, recipe_ids,
                                      use_faiss, faiss_index)))

\* the caller takes the answer
MLDeliver ==
    /\ ml_request # None
    /\ ml_request' = None /\ ml_response' = None

InitRecommend == NormIdle /\ CovIdle /\ EngineIdle /\ RecommendInit /\ ThreadsIdle

IsML == engine_class = "MLRecommendationEngine" /\ ml_request = None
IsAdvanced == engine_class = "AdvancedMLEngine" /\ ml_request = None

NextRecommend ==
    \/ /\ IsML
       /\ \E recipes \in RecommendInputs : Train(recipes, "written")
       /\ UNCHANGED <<threadVars, normVars, covVars, engineVars, advVars>>
    \/ /\ IsAdvanced
       /\ \E recipes \in RecommendInputs, use_faiss_arg \in BOOLEAN :
              AdvTrain(recipes, use_faiss_arg, "written")
       /\ UNCHANGED <<threadVars, normVars, covVars, engineVars, engine_class,
                      faiss_available, use_faiss, ml_request, ml_response>>
    \/ /\ IsML
       /\ \E q \in MLRecommendRequests : MLRecommend(q)
       /\ UNCHANGED <<threadVars, normVars, covVars, engineVars, mlVars, engine_class,
                      faiss_available, use_faiss, faiss_index, faiss_file>>
    \/ /\ IsML
       /\ \E q \in SimilarRequests : MLSimilar(q)
       /\ UNCHANGED <<threadVars, normVars, covVars, engineVars, mlVars, engine_class,
                      faiss_available, use_faiss, faiss_index, faiss_file>>
    \/ /\ IsML
       /\ MLStats
       /\ UNCHANGED <<threadVars, normVars, covVars, engineVars, mlVars, engine_class,
                      faiss_available, use_faiss, faiss_index, faiss_file>>
    \/ /\ IsAdvanced
       /\ \E q \in AdvRecommendRequests : AdvRecommend(q)
       /\ UNCHANGED <<threadVars, normVars, covVars, engineVars, mlVars, engine_class,
                      faiss_available, use_faiss, faiss_index, faiss_file>>
    \/ /\ IsAdvanced
       /\ \E q \in SimilarRequests : AdvSimilar(q)
       /\ UNCHANGED <<threadVars, normVars, covVars, engineVars, mlVars, engine_class,
                      faiss_available, use_faiss, faiss_index, faiss_file>>
    \/ /\ IsAdvanced
       /\ AdvStats
       /\ UNCHANGED <<threadVars, normVars, covVars, engineVars, mlVars, engine_class,
                      faiss_available, use_faiss, faiss_index, faiss_file>>
    \/ /\ MLDeliver
       /\ UNCHANGED <<threadVars, normVars, covVars, engineVars, mlVars, engine_class,
                      faiss_available, use_faiss, faiss_index, faiss_file>>

SpecRecommend == InitRecommend /\ [][NextRecommend]_vars

\* the engine answers a query of this operation, and the answer is pending
Answered(op) ==
    /\ ml_response # None
    /\ ml_request[1].op = op

\* the answer is a list, not an exception
AnsweredList(op) == Answered(op) /\ ml_response[1].outcome = "return"

\* the index queries use: AdvancedMLEngine searches faiss_index whenever
\* use_faiss is set and there is an index
IndexInUse ==
    /\ engine_class = "AdvancedMLEngine"
    /\ is_trained /\ use_faiss /\ faiss_index # None

\* C11: on a trained AdvancedMLEngine, the index that queries use was built
\* from exactly the current recipe_vectors: an index of an earlier train is
\* never kept and searched against a newer model.
C11_IndexBuiltFromCurrentVectors ==
    IndexInUse => faiss_index = Some(build_faiss_index(recipe_vectors))

\* the vectorizer is fitted and recipe_vectors has a row for every id
ModelConsistent ==
    /\ is_trained
    /\ vectorizer[1].fitted
    /\ RowCount(recipe_vectors) = Len(recipe_ids)

\* the answers the brute-force path of AdvancedMLEngine can give to the
\* pending query on the model of the engine
BruteForceAnswers ==
    LET q == ml_request[1]
    IN  IF q.op = "get_recommendations"
        THEN recommendations_fallback(recipe_vectors, recipe_ids,
                 DenseRow(vectorizer[1].vocabulary, q.pantry_ingredients),
                 q.n_recommendations, q.exclude_ids, q.min_score)
        ELSE IF \A i \in 1..Len(recipe_ids) : recipe_ids[i] # q.recipe_id
        THEN {Return(<<>>)}
        ELSE similar_fallback(recipe_vectors, recipe_ids,
                 ListIndex(recipe_ids, q.recipe_id), q.n_similar)

\* C13: on the same trained model and for the same query, the FAISS path
\* of AdvancedMLEngine answers with a sequence of (recipe_id, score) pairs
\* that the brute-force cosine path can answer with.
C13_FaissEqualsBruteForce ==
    /\ IndexInUse
    /\ faiss_index = Some(build_faiss_index(recipe_vectors))
    /\ ModelConsistent
    /\ Answered("get_recommendations") \/ Answered("get_similar_recipes")
    => ml_response[1] \in BruteForceAnswers

\* C14: when faiss is not importable or the engine has no index, a trained
\* AdvancedMLEngine answers get_recommendations and get_similar_recipes
\* with a list, through the brute-force branch, and does not raise.
C14_FallbackAnswersWithoutFaiss ==
    /\ engine_class = "AdvancedMLEngine"
    /\ ModelConsistent
    /\ ~faiss_available \/ faiss_index = None
    /\ Answered("get_recommendations") \/ Answered("get_similar_recipes")
    => ml_response[1].outcome = "return"

\* the pairs of the list the pending query returned
Pairs == ml_response[1].value

\* C15: the pairs get_recommendations and get_similar_recipes return, in
\* either engine, come highest score first, and two pairs with equal scores
\* come in ascending order of recipe id.
C15_DescendingScoreAscendingId ==
    AnsweredList("get_recommendations") \/ AnsweredList("get_similar_recipes")
    => \A i, j \in 1..Len(Pairs) :
           i < j => /\ CovLeq(Pairs[j][2], Pairs[i][2])
                    /\ CovEq(Pairs[j][2], Pairs[i][2])
                           => Pairs[i][1] <= Pairs[j][1]

\* C16: get_similar_recipes called on a trained engine with a recipe id
\* the model does not know fails with a NotFound outcome, which is not the
\* answer of a query that found no similar recipe.
C16_UnknownIdIsNotFound ==
    /\ is_trained
    /\ Answered("get_similar_recipes")
    /\ \A i \in 1..Len(recipe_ids) : recipe_ids[i] # ml_request[1].recipe_id
    => /\ ml_response[1].outcome = "raise"
       /\ ml_response[1] # Return(<<>>)

\* C17: no pair of the list get_similar_recipes(recipe_id, n) returns has
\* recipe_id as its id, whatever the scores: identical rows, a row of
\* zeros and ties included.
C17_SimilarExcludesItself ==
    AnsweredList("get_similar_recipes")
    => \A i \in 1..Len(Pairs) : Pairs[i][1] # ml_request[1].recipe_id

\* C18: get_recommendations returns at most n_recommendations pairs for
\* every n_recommendations >= 0, none for 0, in either engine and on
\* either path.
C18_AtMostNRecommendations ==
    AnsweredList("get_recommendations")
    => Len(Pairs) <= ml_request[1].n_recommendations

\* C19: no pair get_recommendations returns has its id in exclude_ids,
\* and no pair AdvancedMLEngine.get_recommendations returns has a score
\* below min_score.
C19_ExcludedAndLowScoresFiltered ==
    AnsweredList("get_recommendations")
    => \A i \in 1..Len(Pairs) :
           /\ Pairs[i][1] \notin ml_request[1].exclude_ids
           /\ engine_class = "AdvancedMLEngine"
                  => ~CovLess(Pairs[i][2], ml_request[1].min_score)

\* the index is searched, the best recipe is excluded and the other one,
\* whose score is not below min_score, is returned
C19_Witness ==
    /\ AnsweredList("get_recommendations")
    /\ IndexInUse
    /\ faiss_index = Some(build_faiss_index(recipe_vectors))
    /\ recipe_ids = <<1, 2>>
    /\ ml_request[1].pantry_ingredients = {"garlic", "tomato"}
    /\ ml_request[1].exclude_ids = {1}
    /\ ml_request[1].min_score = <<1, 2>>
    /\ ml_request[1].n_recommendations = 2
    /\ Pairs = <<<<2, <<1, 2>>>>>>

\* C20: on an engine on which no train has succeeded, get_recommendations
\* and get_similar_recipes return the empty list and do not raise, and
\* get_model_stats reports is_trained = false.
C20_UntrainedAnswersEmpty ==
    ~is_trained /\ ml_response # None
    => IF ml_request[1].op = "get_model_stats"
       THEN /\ ml_response[1].outcome = "return"
            /\ ~ml_response[1].value.is_trained
       ELSE ml_response[1] = Return(<<>>)

\* a train has failed, leaving its ids and a vectorizer that is not
\* fitted, and the engine is asked for recommendations
C20_Witness ==
    /\ ~is_trained
    /\ recipe_ids # <<>>
    /\ vectorizer # None
    /\ Answered("get_recommendations")
    /\ ml_request[1].n_recommendations > 0
    /\ Pairs = <<>>

-----------------------------------------------------------------------------
(* Persistence: an engine of either class trained, saved, loaded and       *)
(* constructed anew on the same model directory, the file system failing   *)
(* some of the writes. A call is kept in ml_request with the way the file  *)
(* system answered it (io), and what it returned in ml_response.           *)

\* the fields of an AdvancedMLEngine
EngineFields(vec, vectors, ids, trained, usef, index) ==
    [vectorizer |-> vec, recipe_vectors |-> vectors, recipe_ids |-> ids,
     is_trained |-> trained, use_faiss |-> usef, faiss_index |-> index]

\* the fields __init__ assigns before it calls load_model
FreshFields(available) ==
    EngineFields(None, None, <<>>, FALSE, available, None)

\* load_model that ignores the saved use_faiss
adv_load_model_default_faiss(available, fields, file, index_file) ==
    IF file = None \/ ~file[1].readable THEN fields
    ELSE [fields EXCEPT !.vectorizer = file[1].vectorizer,
                        !.recipe_vectors = file[1].recipe_vectors,
                        !.recipe_ids = file[1].recipe_ids,
                        !.use_faiss = FALSE,
                        !.is_trained = TRUE]

\* AdvancedMLEngine.load_model() on an engine with the given fields: the
\* fields afterwards. Every exception is caught: an unreadable model file
\* assigns nothing, an unreadable index file leaves the fields assigned
\* before read_index and does not reach is_trained = True.
adv_load_model(available, fields, file, index_file) ==
    IF file = None \/ ~file[1].readable THEN fields
    ELSE LET loaded == [fields EXCEPT
                           !.vectorizer = file[1].vectorizer,
                           !.recipe_vectors = file[1].recipe_vectors,
                           !.recipe_ids = file[1].recipe_ids,
                           !.use_faiss = file[1].use_faiss]
         IN  IF loaded.use_faiss /\ available /\ index_file # None
             THEN IF index_file[1] = CorruptIndexFile
                  THEN loaded
                  ELSE [loaded EXCEPT !.faiss_index = index_file,
                                      !.is_trained = TRUE]
             ELSE [loaded EXCEPT !.is_trained = TRUE]

\* the fields of an MLRecommendationEngine constructed on a directory with
\* the given model file
ml_constructed(file) ==
    IF file = None \/ ~file[1].readable
    THEN EngineFields(None, None, <<>>, FALSE, FALSE, None)
    ELSE EngineFields(file[1].vectorizer, file[1].recipe_vectors,
                      file[1].recipe_ids, TRUE, FALSE, None)

\* the engine takes the given fields
Assign(fields) ==
    /\ vectorizer' = fields.vectorizer
    /\ recipe_vectors' = fields.recipe_vectors
    /\ recipe_ids' = fields.recipe_ids
    /\ is_trained' = fields.is_trained
    /\ use_faiss' = fields.use_faiss
    /\ faiss_index' = fields.faiss_index

CurrentFields ==
    EngineFields(vectorizer, recipe_vectors, recipe_ids, is_trained,
                 use_faiss, faiss_index)

\* what train returns or raises
TrainOutcome(recipes) ==
    IF recipes # <<>> /\ FitVocabulary(recipes) = {}
    THEN Raise("ValueError") ELSE Return(None)

\* engine.train(recipes) of MLRecommendationEngine
MLTrainCall(recipes, io) ==
    /\ Train(recipes, io)
    /\ ml_request' = Some([op |-> "train", recipes |-> recipes, io |-> io])
    /\ ml_response' = Some(TrainOutcome(recipes))
    /\ UNCHANGED <<engine_class, faiss_available, use_faiss, faiss_index,
                   faiss_file>>

\* engine.save_model() of MLRecommendationEngine
MLSaveCall(io) ==
    /\ SaveModel(io)
    /\ ml_request' = Some([op |-> "save_model", io |-> io])
    /\ ml_response' = Some(Return(None))
    /\ UNCHANGED <<engine_class, faiss_available, use_faiss, faiss_index,
                   faiss_file>>

\* engine.load_model() of MLRecommendationEngine
MLLoadCall ==
    /\ LoadModel
    /\ ml_request' = Some([op |-> "load_model"])
    /\ ml_response' = Some(Return(None))
    /\ UNCHANGED <<engine_class, faiss_available, use_faiss, faiss_index,
                   faiss_file>>

\* MLRecommendationEngine(model_path) on the same directory
MLInitCall ==
    /\ Construct
    /\ ml_request' = Some([op |-> "__init__"])
    /\ ml_response' = Some(Return(None))
    /\ UNCHANGED <<engine_class, faiss_available, use_faiss, faiss_index,
                   faiss_file>>

\* engine.train(recipes, use_faiss) of AdvancedMLEngine
AdvTrainCall(recipes, use_faiss_arg, io) ==
    /\ AdvTrain(recipes, use_faiss_arg, io)
    /\ ml_request' = Some([op |-> "train", recipes |-> recipes, io |-> io,
                           use_faiss |-> use_faiss_arg])
    /\ ml_response' = Some(TrainOutcome(recipes))
    /\ UNCHANGED <<engine_class, faiss_available, use_faiss>>

\* engine.save_model() of AdvancedMLEngine
AdvSaveCall(io) ==
    /\ LET saved == adv_save_model(is_trained, vectorizer, recipe_vectors,
                        recipe_ids, use_faiss, faiss_index, model_file,
                        faiss_file, io)
       IN  model_file' = saved[1] /\ faiss_file' = saved[2]
    /\ ml_request' = Some([op |-> "save_model", io |-> io])
    /\ ml_response' = Some(Return(None))
    /\ UNCHANGED <<vectorizer, recipe_vectors, recipe_ids, is_trained,
                   engine_class, faiss_available, use_faiss, faiss_index>>

\* engine.load_model() of AdvancedMLEngine
AdvLoadCall ==
    /\ Assign(adv_load_model(faiss_available, CurrentFields, model_file,
                             faiss_file))
    /\ ml_request' = Some([op |-> "load_model"])
    /\ ml_response' = Some(Return(None))
    /\ UNCHANGED <<model_file, faiss_file, engine_class, faiss_available>>

\* AdvancedMLEngine(model_path) on the same directory
AdvInitCall ==
    /\ Assign(adv_load_model(faiss_available, FreshFields(faiss_available),
                             model_file, faiss_file))
    /\ ml_request' = Some([op |-> "__init__"])
    /\ ml_response' = Some(Return(None))
    /\ UNCHANGED <<model_file, faiss_file, engine_class, faiss_available>>

\* the recipe lists the engines are trained on here: the list of recipe 3
\* alone, whose fit fails (it has no term), and the first recipes of a list
\* that is not in id order: none, one, two ...
PersistInputs ==
    LET all == <<PoolRecipe(2), PoolRecipe(1), PoolRecipe(4)>>
    IN  {<<PoolRecipe(3)>>}
            \cup {SubSeq(all, 1, n) : n \in 0..Min(MaxTrain, Len(all))}

InitPersist == NormIdle /\ CovIdle /\ EngineIdle /\ RecommendInit /\ ThreadsIdle

NextPersist ==
    \/ /\ IsML
       /\ \E recipes \in PersistInputs, io \in IOOutcomes :
              MLTrainCall(recipes, io)
       /\ UNCHANGED <<threadVars, normVars, covVars, engineVars>>
    \/ /\ IsML
       /\ \E io \in IOOutcomes : MLSaveCall(io)
       /\ UNCHANGED <<threadVars, normVars, covVars, engineVars>>
    \/ /\ IsML
       /\ MLLoadCall
       /\ UNCHANGED <<threadVars, normVars, covVars, engineVars>>
    \/ /\ IsML
       /\ MLInitCall
       /\ UNCHANGED <<threadVars, normVars, covVars, engineVars>>
    \/ /\ IsAdvanced
       /\ \E recipes \in PersistInputs, use_faiss_arg \in BOOLEAN,
             io \in AdvancedIOOutcomes :
              AdvTrainCall(recipes, use_faiss_arg, io)
       /\ UNCHANGED <<threadVars, normVars, covVars, engineVars>>
    \/ /\ IsAdvanced
       /\ \E io \in AdvancedIOOutcomes : AdvSaveCall(io)
       /\ UNCHANGED <<threadVars, normVars, covVars, engineVars>>
    \/ /\ IsAdvanced
       /\ AdvLoadCall
       /\ UNCHANGED <<threadVars, normVars, covVars, engineVars>>
    \/ /\ IsAdvanced
       /\ AdvInitCall
       /\ UNCHANGED <<threadVars, normVars, covVars, engineVars>>
    \/ /\ MLDeliver
       /\ UNCHANGED <<threadVars, normVars, covVars, engineVars, mlVars, engine_class,
                      faiss_available, use_faiss, faiss_index, faiss_file>>

SpecPersist == InitPersist /\ [][NextPersist]_vars

\* what an engine of the given class with the given fields answers to every
\* get_recommendations and get_similar_recipes call of the pools (for each
\* call the set of the answers it can give)
EngineAnswers(class, available, f) ==
    IF class = "MLRecommendationEngine"
    THEN [recommend |->
              [q \in MLRecommendRequests |->
                  ml_get_recommendations(f.is_trained, f.vectorizer,
                      f.recipe_vectors, f.recipe_ids, q.pantry_ingredients,
                      q.n_recommendations, q.exclude_ids)],
          similar |->
              [q \in SimilarRequests |->
                  ml_get_similar_recipes(f.is_trained, f.recipe_vectors,
                      f.recipe_ids, q.recipe_id, q.n_similar)]]
    ELSE [recommend |->
              [q \in AdvRecommendRequests |->
                  adv_get_recommendations(available, f.is_trained,
                      f.vectorizer, f.recipe_vectors, f.recipe_ids,
                      f.use_faiss, f.faiss_index, q.pantry_ingredients,
                      q.n_recommendations, q.exclude_ids, q.min_score)],
          similar |->
              [q \in SimilarRequests |->
                  adv_get_similar_recipes(f.is_trained, f.recipe_vectors,
                      f.recipe_ids, f.use_faiss, f.faiss_index, q.recipe_id,
                      q.n_similar)]]

\* the engine is trained and the model directory holds the files its
\* save_model writes and no other: the model file is the dump of its
\* fields, and there is an index file only for an index in use, that index
SavedByEngine ==
    /\ is_trained
    /\ IF engine_class = "MLRecommendationEngine"
       THEN model_file = Some(ModelData(vectorizer, recipe_vectors,
                                        recipe_ids))
       ELSE /\ model_file = Some(AdvancedModelData(vectorizer,
                                     recipe_vectors, recipe_ids, use_faiss))
            /\ faiss_file = IF use_faiss /\ faiss_index # None
                            THEN faiss_index ELSE None

\* the step constructs a new engine on the model directory
ConstructStep == ml_request = None /\ ml_request' = Some([op |-> "__init__"])

\* the engine after the step has the model of the engine before it
SameModel ==
    /\ vectorizer' = vectorizer
    /\ recipe_vectors' = recipe_vectors
    /\ recipe_ids' = recipe_ids
    /\ use_faiss' = use_faiss
    /\ EngineAnswers(engine_class, faiss_available, CurrentFields)' =
           EngineAnswers(engine_class, faiss_available, CurrentFields)

LoadFailed ==
    /\ model_file # None
    /\ \/ ~model_file[1].readable
       \/ /\ engine_class = "AdvancedMLEngine"
          /\ model_file[1].use_faiss /\ faiss_available
          /\ faiss_file = Some(CorruptIndexFile)

\* C22: a save_model or load_model call that meets an I/O or unpickling
\* failure returns normally, and after a failed load_model the engine is
\* untrained, so never marked trained with fields partly from that load.
C22_FailedLoadLeavesUntrained ==
    /\ (Answered("save_model") \/ Answered("load_model"))
           => ml_response = Some(Return(None))
    /\ (Answered("load_model") /\ LoadFailed) => ~is_trained

\* the part of C22 that concerns raising
C22_NeverRaises ==
    (Answered("save_model") \/ Answered("load_model") \/ Answered("__init__"))
        => ml_response = Some(Return(None))

\* the part of C22 about the state, for the load_model that __init__ calls
C22_FailedInitLeavesUntrained ==
    (Answered("__init__") /\ LoadFailed) => ~is_trained

\* a failed load_model on an engine whose index is that of its vectors never
\* leaves it marked trained with the vectors of the file and the index of
\* the vectors it had
C22_NoPartialLoad ==
    [][(/\ ml_request = None /\ ml_request' = Some([op |-> "load_model"])
        /\ is_trained /\ faiss_index # None
        /\ faiss_index[1].rows = recipe_vectors[1])
       => ~(/\ LoadFailed' /\ is_trained'
            /\ faiss_index'[1].rows # recipe_vectors'[1])]_vars


\* the step is a call of train with an empty recipe list
EmptyTrainStep ==
    /\ ml_request = None /\ ml_request' # None
    /\ ml_request'[1].op = "train" /\ ml_request'[1].recipes = <<>>

\* C24: train with an empty recipe list changes nothing: vectorizer,
\* recipe_vectors, recipe_ids, the index and is_trained are as before and no
\* file is written; an untrained engine stays untrained.
C24_EmptyTrainIsNoOp ==
    [][EmptyTrainStep =>
          /\ UNCHANGED <<vectorizer, recipe_vectors, recipe_ids, is_trained,
                         use_faiss, faiss_index, model_file, faiss_file>>
          /\ ml_response' = Some(Return(None))]_vars

\* train([]) has returned on an engine that an earlier train had trained and
\* saved
C24_Witness ==
    /\ Answered("train") /\ ml_request[1].recipes = <<>>
    /\ is_trained /\ model_file # None /\ Len(recipe_ids) = 2

\* train([]) has returned on an engine that was never trained
C24_UntrainedWitness ==
    /\ Answered("train") /\ ml_request[1].recipes = <<>>
    /\ ~is_trained /\ model_file = None

\* train(recipes) of MLRecommendationEngine has returned, not raised, for a
\* non-empty recipe list
TrainReturned ==
    /\ engine_class = "MLRecommendationEngine"
    /\ AnsweredList("train")
    /\ ml_request[1].recipes # <<>>

\* what C28 says of the engine and of a new engine on the same model_path
TrainedAndSaved ==
    /\ is_trained
    /\ ml_get_model_stats(is_trained, recipe_ids).num_recipes
           = Len(ml_request[1].recipes)
    /\ recipe_ids = IdsOf(ml_request[1].recipes)
    /\ ml_constructed(model_file).is_trained
    /\ ml_constructed(model_file).recipe_ids = recipe_ids

C25_NumbersRemoved ==
    normalized # None =>
        \A i \in 1..Len(normalized[1]) : normalized[1][i] \notin Digits

\* the numbers that a unit follows are removed
C25_NumbersWithUnitRemoved ==
    (normalized # None /\ ingredient \in {str_cup_rice, str_cups, str_kgs_salt})
        => \A i \in 1..Len(normalized[1]) : normalized[1][i] \notin Digits

-----------------------------------------------------------------------------
(* The inverted index after the first load, and empty normalized forms.    *)

\* a recipe with an ingredient, "2 cups", that normalizes to ''
EmptyFormRow ==
    [id |-> 15, ingredients_list |-> <<str_cups, str_rice>>, minutes |-> 1]

\* the corpora with that recipe
EmptyFormCorpora ==
    {c \in SeqsUpTo(RowPool \cup {EmptyFormRow}, MaxCorpus) :
        /\ \A i, j \in 1..Len(c) : i # j => c[i].id # c[j].id
        /\ \E i \in 1..Len(c) : c[i] = EmptyFormRow}

\* RecipeEngine.__init__ on a CSV file with one of these corpora
EmptyFormInit ==
    /\ \E c \in EmptyFormCorpora :
           LET loaded == load_data(Some(c), {})
           IN  /\ recipes_df = loaded.recipes_df
               /\ ingredient_index = loaded.ingredient_index
    /\ request = None
    /\ response = None

InitEmptyForm == NormIdle /\ CovIdle /\ EmptyFormInit /\ MLIdle /\ AdvIdle /\ ThreadsIdle

\* the searches of SpecSearch on these corpora
SpecEmptyForm == InitEmptyForm /\ [][NextSearch]_vars

\* ingredient_index.get(key, set())
IndexEntry(index, key) == {p[2] : p \in {q \in index : q[1] = key}}

\* the row positions of the recipes with key among their normalized
\* ingredients (forms[i] lists those of the i-th recipe)
RowsWith(forms, key) ==
    {i - 1 : i \in {j \in 1..Len(forms) :
        \E k \in 1..Len(forms[j]) : forms[j][k] = key}}

\* C26: after the first load of a corpus, ingredient_index[k] is for every
\* key k the set of the row positions of the recipes with an ingredient
\* that normalizes to k, and a string no ingredient normalizes to is no key
\* (looked up are the keys of the index, the normalized ingredients of the
\* corpus, and the sample ingredients as written).
C26_IndexIsExact ==
    LET forms == [i \in 1..Len(recipes_df) |->
                     NormalizeAll(recipes_df[i].ingredients_list)]
        keys == {p[1] : p \in ingredient_index}
                    \cup UNION {{forms[i][k] : k \in 1..Len(forms[i])} :
                                    i \in 1..Len(forms)}
                    \cup SampleIngredients
    IN  \A key \in keys :
            IndexEntry(ingredient_index, key) = RowsWith(forms, key)

\* a corpus of three recipes, the first and the third with salt and the
\* second with "2 cups", which is indexed under '' and not as written
C26_Witness ==
    /\ Len(recipes_df) = 3
    /\ IndexEntry(ingredient_index, str_salt) = {0, 2}
    /\ IndexEntry(ingredient_index, <<>>) = {1}
    /\ IndexEntry(ingredient_index, str_cups) = {}

\* the pantry of the request has an ingredient that normalizes to ''
PantryHasEmptyForm ==
    \E k \in 1..Len(request[1].pantry_ingredients) :
        normalize_ingredient(request[1].pantry_ingredients[k]) = <<>>

\* C29: when a pantry ingredient normalizes to the empty string every recipe
\* is scored with coverage 1.0 and nothing missing; a recipe ingredient that
\* normalizes to the empty string is matched by any non-empty pantry.
C29_EmptyFormMatchesEverything ==
    Returned =>
        LET q == request[1]
            scored == ranked_recipes(recipes_df, q.pantry_ingredients, None)
            page == response[1].value.recipes
        IN  /\ PantryHasEmptyForm =>
                /\ \A i \in 1..Len(scored) :
                       /\ CovEq(scored[i].pantry_coverage, <<1, 1>>)
                       /\ scored[i].missing_ingredients = <<>>
                /\ \A i \in 1..Len(page) :
                       /\ CovEq(page[i].pantry_coverage, <<1, 1>>)
                       /\ page[i].missing_ingredients = <<>>
            /\ q.pantry_ingredients # <<>> =>
                \A i \in 1..Len(page) :
                    \A k \in 1..Len(page[i].missing_ingredients) :
                        page[i].missing_ingredients[k] # <<>>

\* a search with the pantry ["2 cups"] that returned a recipe with rice
C29_Witness ==
    /\ Returned
    /\ request[1].pantry_ingredients = <<str_cups>>
    /\ \E i \in 1..Len(response[1].value.recipes) :
           /\ response[1].value.recipes[i].id = 12
           /\ response[1].value.recipes[i].missing_ingredients = <<>>

\* a search with the pantry ["Egg"] that returned the recipe of "2 cups" and
\* "rice", only the rice missing
C29_RecipeWitness ==
    /\ Returned
    /\ request[1].pantry_ingredients = <<str_Egg>>
    /\ \E i \in 1..Len(response[1].value.recipes) :
           /\ response[1].value.recipes[i].id = 15
           /\ response[1].value.recipes[i].missing_ingredients = <<str_rice>>

-----------------------------------------------------------------------------
(* How many recommendations a query returns.                               *)

\* the number of trained recipes whose id is not excluded and whose score
\* for the pending get_recommendations query is at least min_score
\* (MLRecommendationEngine has no min_score: every score qualifies)
Eligible ==
    LET q == ml_request[1]
    IN  IF engine_class = "MLRecommendationEngine"
        THEN Cardinality({i \in 1..Len(recipe_ids) :
                             recipe_ids[i] \notin q.exclude_ids})
        ELSE LET query_vector ==
                     DenseRow(vectorizer[1].vocabulary, q.pantry_ingredients)
             IN  Cardinality({i \in 1..Len(recipe_ids) :
                     /\ recipe_ids[i] \notin q.exclude_ids
                     /\ CovLeq(q.min_score,
                               DenseCosine(query_vector,
                                           recipe_vectors[1][i]))})

\* a get_recommendations call with n >= 1 has returned a list on a trained
\* engine whose index, if it uses one, is the index of its vectors
RecommendedOnCurrentModel ==
    /\ AnsweredList("get_recommendations")
    /\ ml_request[1].n_recommendations >= 1
    /\ ModelConsistent
    /\ IndexInUse => faiss_index = Some(build_faiss_index(recipe_vectors))

\* C30: for n >= 1 on a trained engine get_recommendations returns exactly
\* min(n, E) pairs, E the number of trained recipes that are not excluded
\* and score at least min_score: the candidates fetched absorb every
\* exclusion set.
C30_ReturnsMinOfNAndEligible ==
    RecommendedOnCurrentModel =>
        Len(Pairs) = Min(ml_request[1].n_recommendations, Eligible)

\* the same for the paths that rank every recipe: MLRecommendationEngine and
\* the fallback of AdvancedMLEngine
C30_BruteForceReturnsMinOfNAndEligible ==
    (RecommendedOnCurrentModel /\ ~IndexInUse) =>
        Len(Pairs) = Min(ml_request[1].n_recommendations, Eligible)

-----------------------------------------------------------------------------
(* Concurrency: train calls of MLRecommendationEngine running in threads   *)
(* while queries are served on the same engine (app.py creates one engine *)
(* at module level).  train takes no lock: each of its statements that     *)
(* assigns a field is a step of its thread, and the steps of the threads   *)
(* and the queries interleave.  A query is one step, the most favourable   *)
(* case for it.  Column positions matter as soon as the vectorizer and the *)
(* matrix can come from different trainings, so recipe_vectors holds the   *)
(* dense rows here.                                                        *)

\* the threads that call train
Threads == {"t1", "t2"}

\* a thread that is not in train
IdleTrainer == [pc |-> "idle", recipes |-> <<>>, tfidf_matrix |-> None]

\* the recipe lists the threads train on: one recipe, and two recipes with
\* a larger vocabulary
ConcurrentInputs ==
    {<<PoolRecipe(2)>>, <<PoolRecipe(1), PoolRecipe(2)>>}

\* the thread moves on to the given statement
Goto(t, pc) == trainers' = [trainers EXCEPT ![t].pc = pc]

\* thread t calls train(recipes): the list is not empty
TrainCall(t, recipes) ==
    /\ trainers[t].pc = "idle"
    /\ trainers' = [trainers EXCEPT ![t] =
           [pc |-> "recipe_ids", recipes |-> recipes, tfidf_matrix |-> None]]
    /\ UNCHANGED <<mlVars, advVars>>

\* self.recipe_ids = [recipe.get('id', i) ...]
AssignRecipeIds(t) ==
    /\ trainers[t].pc = "recipe_ids"
    /\ recipe_ids' = IdsOf(trainers[t].recipes)
    /\ Goto(t, "vectorizer")
    /\ UNCHANGED <<vectorizer, recipe_vectors, is_trained, model_file, advVars>>

\* self.vectorizer = TfidfVectorizer(...)
AssignVectorizer(t) ==
    /\ trainers[t].pc = "vectorizer"
    /\ vectorizer' = Some(TfidfVectorizer)
    /\ Goto(t, "fit_transform")
    /\ UNCHANGED <<recipe_vectors, recipe_ids, is_trained, model_file, advVars>>

\* self.vectorizer.fit_transform(recipe_texts): the vectorizer the engine
\* holds at this moment is fitted on the texts of this thread, the matrix is
\* not assigned yet
FitTransformCall(t) ==
    /\ trainers[t].pc = "fit_transform"
    /\ vectorizer' = Some(Fitted(FitVocabulary(trainers[t].recipes)))
    /\ trainers' = [trainers EXCEPT
           ![t].pc = "recipe_vectors",
           ![t].tfidf_matrix = Some(DenseFitTransform(trainers[t].recipes))]
    /\ UNCHANGED <<recipe_vectors, recipe_ids, is_trained, model_file, advVars>>

\* self.recipe_vectors = <the matrix fit_transform returned>
AssignRecipeVectors(t) ==
    /\ trainers[t].pc = "recipe_vectors"
    /\ recipe_vectors' = trainers[t].tfidf_matrix
    /\ Goto(t, "is_trained")
    /\ UNCHANGED <<vectorizer, recipe_ids, is_trained, model_file, advVars>>

\* self.is_trained = True
AssignIsTrained(t) ==
    /\ trainers[t].pc = "is_trained"
    /\ is_trained' = TRUE
    /\ Goto(t, "save_model")
    /\ UNCHANGED <<vectorizer, recipe_vectors, recipe_ids, model_file, advVars>>

\* self.save_model(): the fields as they are at this moment are dumped
SaveModelCall(t) ==
    /\ trainers[t].pc = "save_model"
    /\ model_file' = save_model(is_trained, vectorizer, recipe_vectors,
                                recipe_ids, model_file, "written")
    /\ Goto(t, "returned")
    /\ UNCHANGED <<vectorizer, recipe_vectors, recipe_ids, is_trained, advVars>>

\* the caller of train goes on
TrainReturn(t) ==
    /\ trainers[t].pc = "returned"
    /\ trainers' = [trainers EXCEPT ![t] = IdleTrainer]
    /\ UNCHANGED <<mlVars, advVars>>

\* MLRecommendationEngine.get_recommendations on dense rows: transform
\* gives the query one column for each term of the vectorizer, and
\* cosine_similarity raises when the matrix has another number of columns
dense_get_recommendations(trained, vec, vectors, ids, pantry_ingredients, n, exclude_ids) ==
    IF ~trained THEN {Return(<<>>)}
    ELSE IF ~vec[1].fitted THEN {Raise("NotFittedError")}
    ELSE LET query_vector == DenseRow(vec[1].vocabulary, pantry_ingredients)
         IN  IF Len(query_vector) # Len(vectors[1][1])
             THEN {Raise("ValueError")}
             ELSE recommendations_fallback(vectors, ids, query_vector, n,
                                           exclude_ids, <<0, 1>>)

\* MLRecommendationEngine.get_similar_recipes on dense rows
dense_get_similar_recipes(trained, vectors, ids, recipe_id, n_similar) ==
    IF ~trained THEN {Return(<<>>)}
    ELSE IF \A i \in 1..Len(ids) : ids[i] # recipe_id THEN {Return(<<>>)}
    ELSE IF ListIndex(ids, recipe_id) >= Len(vectors[1])
    THEN {Raise("IndexError")}
    ELSE similar_fallback(vectors, ids, ListIndex(ids, recipe_id), n_similar)

\* the queries served while the threads train
ConcurrentRecommendRequests ==
    {q \in MLRecommendRequests :
        /\ q.pantry_ingredients = {"tomato"}
        /\ q.n_recommendations >= 1
        /\ q.exclude_ids = {}}

ConcurrentSimilarRequests ==
    {q \in SimilarRequests : q.recipe_id \in {1, 2} /\ q.n_similar = 1}

\* a get_recommendations call, served in one step
ConcurrentRecommend(q) ==
    /\ ml_request = None
    /\ ml_request' = Some(q)
    /\ \E result \in dense_get_recommendations(is_trained, vectorizer,
                         recipe_vectors, recipe_ids, q.pantry_ingredients,
                         q.n_recommendations, q.exclude_ids) :
           ml_response' = Some(result)
    /\ UNCHANGED <<mlVars, engine_class, faiss_available, use_faiss,
                   faiss_index, faiss_file, threadVars>>

\* a get_similar_recipes call, served in one step
ConcurrentSimilar(q) ==
    /\ ml_request = None
    /\ ml_request' = Some(q)
    /\ \E result \in dense_get_similar_recipes(is_trained, recipe_vectors,
                         recipe_ids, q.recipe_id, q.n_similar) :
           ml_response' = Some(result)
    /\ UNCHANGED <<mlVars, engine_class, faiss_available, use_faiss,
                   faiss_index, faiss_file, threadVars>>

\* the caller of the query takes the answer
ConcurrentDeliver ==
    /\ MLDeliver
    /\ UNCHANGED <<mlVars, engine_class, faiss_available, use_faiss,
                   faiss_index, faiss_file, threadVars>>

InitConcurrent ==
    /\ NormIdle /\ CovIdle /\ EngineIdle /\ MLInit /\ AdvIdle
    /\ trainers = [t \in Threads |-> IdleTrainer]

NextConcurrent ==
    \/ \E t \in Threads, recipes \in ConcurrentInputs :
           TrainCall(t, recipes) /\ UNCHANGED <<normVars, covVars, engineVars>>
    \/ \E t \in Threads :
           AssignRecipeIds(t) /\ UNCHANGED <<normVars, covVars, engineVars>>
    \/ \E t \in Threads :
           AssignVectorizer(t) /\ UNCHANGED <<normVars, covVars, engineVars>>
    \/ \E t \in Threads :
           FitTransformCall(t) /\ UNCHANGED <<normVars, covVars, engineVars>>
    \/ \E t \in Threads :
           AssignRecipeVectors(t) /\ UNCHANGED <<normVars, covVars, engineVars>>
    \/ \E t \in Threads :
           AssignIsTrained(t) /\ UNCHANGED <<normVars, covVars, engineVars>>
    \/ \E t \in Threads :
           SaveModelCall(t) /\ UNCHANGED <<normVars, covVars, engineVars>>
    \/ \E t \in Threads :
           TrainReturn(t) /\ UNCHANGED <<normVars, covVars, engineVars>>
    \/ \E q \in ConcurrentRecommendRequests :
           ConcurrentRecommend(q) /\ UNCHANGED <<normVars, covVars, engineVars>>
    \/ \E q \in ConcurrentSimilarRequests :
           ConcurrentSimilar(q) /\ UNCHANGED <<normVars, covVars, engineVars>>
    \/ ConcurrentDeliver /\ UNCHANGED <<normVars, covVars, engineVars>>

SpecConcurrent == InitConcurrent /\ [][NextConcurrent]_vars

\* the model train(recipes) builds when it runs alone
ModelOf(recipes) ==
    /\ is_trained
    /\ vectorizer = Some(Fitted(FitVocabulary(recipes)))
    /\ recipe_vectors = Some(DenseFitTransform(recipes))
    /\ recipe_ids = IdsOf(recipes)

\* the engine holds a complete model: that of one train call, or none
CompleteModel ==
    \/ ~is_trained
    \/ \E recipes \in ConcurrentInputs : ModelOf(recipes)

\* the step serves a get_recommendations or get_similar_recipes call
QueryStep ==
    /\ ml_request = None /\ ml_request' # None
    /\ ml_request'[1].op \in {"get_recommendations", "get_similar_recipes"}

\* C23: a query that runs concurrently with train observes the complete
\* model from before the train or the complete model from after it, with
\* vectorizer, recipe_vectors and recipe_ids from the same training, never
\* a mixture: train publishes the new model in one atomic step.
C23_QueriesSeeCompleteModel == [][QueryStep => CompleteModel]_vars

\* C27: two train calls on the same engine never interleave: when both
\* have returned, vectorizer, recipe_vectors, recipe_ids and the saved
\* model file all come from the same one of the two calls.
C27_TrainsDoNotInterleave ==
    (\A t \in Threads : trainers[t].pc = "returned") =>
        \E t \in Threads :
            /\ ModelOf(trainers[t].recipes)
            /\ model_file = Some(ModelData(vectorizer, recipe_vectors,
                                           recipe_ids))
=============================================================================
